---- MODULE Spec2Model ----
(***************************************************************************)
(* A model of the document field extraction engine of Finance_Advisor:     *)
(* the amount and date normalizers (sfa_utils/normalizers.py), the         *)
(* document-type scorer (parser/doc_type.py), the extractor                *)
(* (parser/extractor.py) and the line-item parser (parser/lineitems.py);   *)
(* and of the ingest commands (finproc.py, cli/finproc.py) with the SQLite *)
(* store and its schema migrations (storage/).                             *)
(*                                                                         *)
(* Text is a sequence of one-character strings.  The regular expressions   *)
(* of the source are written as syntax trees and run by a backtracking     *)
(* matcher with the priorities of Python's re module (greedy and lazy      *)
(* repetition, ordered alternation, groups, look-around), so that which    *)
(* match is found, and what its groups hold, is computed as Python         *)
(* computes it.  Numbers are exact decimals, a mantissa and a count of     *)
(* decimal places, standing for the floats the program computes.           *)
(***************************************************************************)
EXTENDS Integers, Sequences, FiniteSets, TLC

VARIABLES
    given,    \* how the input was built (the parameters the claims quantify over)
    raw,      \* the argument of normalize_amount or of to_iso_date
    amount,   \* the result of normalize_amount(raw), or Pending
    text,     \* the argument of extract / extract_from_text
    doc,      \* the result of extract(text), or Pending
    out,      \* the result of extract_from_text(text), or Pending
    iso,      \* the result of to_iso_date(raw), or Pending
    iso_again, \* the result of to_iso_date on that result, or Pending
    scored,   \* the result of score(text), or Pending
    item_list, \* the result of extract_line_items on the lines given, or Pending
    categorized, \* the result of apply_rules_with_name on the document and
              \* the config given, or Pending
    ledger,   \* the documents and the transactions of the database that
              \* categorize works on
    db,       \* the database file
    last      \* the last call on the database: its arguments, the database it
              \* found (after _ensure_db, for an ingest) and what it returned

dateVars == <<iso, iso_again>>
storeVars == <<db, last>>
serviceVars == <<categorized, ledger>>
laterVars == <<scored, item_list, storeVars, serviceVars>>
vars == <<given, raw, amount, text, doc, out, dateVars, laterVars>>

-----------------------------------------------------------------------------
(* Characters *)

NL == "\n"
EURO == "EURO"
RUPEE == "RUPEE"

DigitSeq == <<"0","1","2","3","4","5","6","7","8","9">>
LowerSeq == <<"a","b","c","d","e","f","g","h","i","j","k","l","m",
              "n","o","p","q","r","s","t","u","v","w","x","y","z">>
UpperSeq == <<"A","B","C","D","E","F","G","H","I","J","K","L","M",
              "N","O","P","Q","R","S","T","U","V","W","X","Y","Z">>

Range(f) == {f[i] : i \in DOMAIN f}

Digit == Range(DigitSeq)
LowerCase == Range(LowerSeq)
UpperCase == Range(UpperSeq)
Letter == LowerCase \cup UpperCase
WordChar == Letter \cup Digit \cup {"_"}
WhiteSpace == {" ", NL}

DigitVal(c) == (CHOOSE k \in DOMAIN DigitSeq : DigitSeq[k] = c) - 1

Lower(c) ==
    IF c \in UpperCase
    THEN LowerSeq[CHOOSE k \in DOMAIN UpperSeq : UpperSeq[k] = c]
    ELSE c

Upper(c) ==
    IF c \in LowerCase
    THEN UpperSeq[CHOOSE k \in DOMAIN LowerSeq : LowerSeq[k] = c]
    ELSE c

-----------------------------------------------------------------------------
(* Python values *)

None == [ty |-> "None"]
\* a list, apart from Pending which is not one
List(xs) == [ty |-> "list", xs |-> xs]
Pending == [ty |-> "Pending"]
Str(s) == [ty |-> "str", s |-> s]
Float(m, e) == [ty |-> "float", m |-> m, e |-> e]
Exc(name) == [ty |-> "exc", name |-> name]
IsExc(v) == v.ty = "exc"

-----------------------------------------------------------------------------
(* Python string operations *)

StrLower(s) == [i \in DOMAIN s |-> Lower(s[i])] \o <<>>
StrUpper(s) == [i \in DOMAIN s |-> Upper(s[i])] \o <<>>

StartsWith(s, p) == Len(s) >= Len(p) /\ SubSeq(s, 1, Len(p)) = p

Contains(s, sub) ==
    \E i \in 1..(Len(s) - Len(sub) + 1) : SubSeq(s, i, i + Len(sub) - 1) = sub

RECURSIVE LStrip(_)
LStrip(s) == IF s # <<>> /\ Head(s) \in WhiteSpace THEN LStrip(Tail(s)) ELSE s

RECURSIVE RStrip(_)
RStrip(s) ==
    IF s # <<>> /\ s[Len(s)] \in WhiteSpace
    THEN RStrip(SubSeq(s, 1, Len(s) - 1))
    ELSE s

Strip(s) == RStrip(LStrip(s))

RECURSIVE Replace(_, _, _)
Replace(s, old, new) ==
    IF s = <<>> THEN <<>>
    ELSE IF StartsWith(s, old)
         THEN new \o Replace(SubSeq(s, Len(old) + 1, Len(s)), old, new)
         ELSE <<Head(s)>> \o Replace(Tail(s), old, new)

RECURSIVE SplitAt(_, _)
SplitAt(s, start) ==
    LET ends == {i \in start..Len(s) : s[i] = NL}
        e == CHOOSE i \in ends : \A j \in ends : i <= j
    IN  IF start > Len(s) THEN <<>>
        ELSE IF ends = {} THEN <<SubSeq(s, start, Len(s))>>
        ELSE <<SubSeq(s, start, e - 1)>> \o SplitAt(s, e + 1)

SplitLines(s) == SplitAt(s, 1)

LastIndexOf(s, c) ==
    IF \E i \in DOMAIN s : s[i] = c
    THEN CHOOSE i \in DOMAIN s : s[i] = c /\ \A j \in DOMAIN s : s[j] = c => j <= i
    ELSE 0

IsDigitStr(s) == s # <<>> /\ \A i \in DOMAIN s : s[i] \in Digit

-----------------------------------------------------------------------------
(* Regular expressions: syntax *)

Ch(S) == [t |-> "ch", set |-> S]
NotCh(S) == [t |-> "nch", set |-> S]
Cat(rs) == [t |-> "cat", rs |-> rs]
Alt(rs) == [t |-> "alt", rs |-> rs]
Rep(r, lo, hi) == [t |-> "rep", r |-> r, lo |-> lo, hi |-> hi, greedy |-> TRUE]
Star(r) == Rep(r, 0, -1)
Plus(r) == Rep(r, 1, -1)
Opt(r) == Rep(r, 0, 1)
LazyPlus(r) == [t |-> "rep", r |-> r, lo |-> 1, hi |-> -1, greedy |-> FALSE]
LazyStar(r) == [t |-> "rep", r |-> r, lo |-> 0, hi |-> -1, greedy |-> FALSE]
Grp(n, r) == [t |-> "grp", n |-> n, r |-> r]
GrpEnd(n, start) == [t |-> "gend", n |-> n, start |-> start]
Bol == [t |-> "bol"]
BolM == [t |-> "bolm"]
Eol == [t |-> "eol"]
EolM == [t |-> "eolm"]
WordB == [t |-> "wb"]
NegAhead(r) == [t |-> "nla", r |-> r]
Ahead(r) == [t |-> "la", r |-> r]
NegBehind(S) == [t |-> "nlb", set |-> S]

Lit(s) == [t |-> "lit", s |-> s, ci |-> FALSE]
LitI(s) == [t |-> "lit", s |-> s, ci |-> TRUE]

D == Ch(Digit)
S_ == Ch(WhiteSpace)
W_ == NotCh(WordChar)
Dot == NotCh({NL})

-----------------------------------------------------------------------------
(* Regular expressions: the backtracking matcher *)

Fail == [ok |-> FALSE]

IsWordAt(s, i) == i >= 1 /\ i <= Len(s) /\ s[i] \in WordChar

\* A state of a match: the position reached and the groups captured on the way.
\* The states a pattern can reach are kept in the order in which the
\* backtracking matcher of re tries them, one state for each position (a later
\* state at the same position can only repeat what the earlier one does).

\* The states of several runs in the order of the runs; runs is a set of
\* [j |-> place of the run, res |-> its states], width exceeds any Len(res).
Merge(runs, width) ==
    LET Keyed(all) ==
            {p \in all : \A q \in all : q.st.i = p.st.i => q.key >= p.key}
        Placed(firsts) ==
            {[h |-> Cardinality({q \in firsts : q.key < p.key}) + 1, st |-> p.st] :
                p \in firsts}
        Sorted(placed) ==
            <<>> \o [h \in 1..Cardinality(placed) |-> (CHOOSE x \in placed : x.h = h).st]
        Several(some) ==
            IF some = {} THEN <<>>
            ELSE IF Cardinality(some) = 1 THEN (CHOOSE x \in some : TRUE).res
            ELSE Sorted(Placed(Keyed(UNION {{[key |-> x.j * width + n, st |-> x.res[n]] :
                                                n \in DOMAIN x.res} : x \in some})))
    IN  Several({x \in runs : x.res # <<>>})

RECURSIVE Run(_, _, _)
RECURSIVE RunCat(_, _, _, _, _)

\* the states after pattern r, from each of the states sts
Run(s, r, sts) ==
    LET Here(st, holds) == IF holds THEN <<st>> ELSE <<>>
        Step(st, holds, n) == IF holds THEN <<[st EXCEPT !.i = st.i + n]>> ELSE <<>>
        \* a repeated character class: the run of matching characters is found
        \* first, then every count from the longest down (greedy) or from the
        \* shortest up (lazy) is a state
        Counts(st, run) ==
            IF run < r.lo THEN <<>>
            ELSE <<>> \o [h \in 1..(run - r.lo + 1) |->
                     [st EXCEPT !.i = IF r.greedy THEN st.i + run - h + 1
                                      ELSE st.i + r.lo + h - 1]]
        Fits(j) == IF r.r.t = "ch" THEN s[j] \in r.r.set ELSE s[j] \notin r.r.set
        Most(i) == IF r.hi < 0 \/ r.hi > Len(s) + 1 - i THEN Len(s) + 1 - i ELSE r.hi
        From(st, i) ==
            CASE r.t = "ch" -> Step(st, i <= Len(s) /\ s[i] \in r.set, 1)
              [] r.t = "nch" -> Step(st, i <= Len(s) /\ s[i] \notin r.set, 1)
              [] r.t = "cat" -> RunCat(s, r.rs, 1, Len(r.rs), <<st>>)
              [] r.t = "rep" ->
                    Counts(st, CHOOSE n \in 0..Most(i) :
                                  /\ \A j \in i..(i + n - 1) : Fits(j)
                                  /\ n = Most(i) \/ ~Fits(i + n))
              [] r.t = "lit" ->
                    Step(st, /\ i + Len(r.s) - 1 <= Len(s)
                             /\ \A j \in DOMAIN r.s :
                                   IF r.ci THEN Lower(s[i + j - 1]) = Lower(r.s[j])
                                           ELSE s[i + j - 1] = r.s[j],
                         Len(r.s))
              [] r.t = "grp" -> RunCat(s, <<r.r, GrpEnd(r.n, i)>>, 1, 2, <<st>>)
              [] r.t = "gend" ->
                    <<[st EXCEPT !.caps = (r.n :> <<r.start, i>>) @@ st.caps]>>
              [] r.t = "bol" -> Here(st, i = 1)
              [] r.t = "bolm" -> Here(st, i = 1 \/ s[i - 1] = NL)
              [] r.t = "eol" -> Here(st, i = Len(s) + 1 \/ (i = Len(s) /\ s[i] = NL))
              [] r.t = "eolm" -> Here(st, i = Len(s) + 1 \/ s[i] = NL)
              [] r.t = "wb" -> Here(st, IsWordAt(s, i - 1) # IsWordAt(s, i))
              [] r.t = "nla" -> Here(st, Run(s, r.r, <<st>>) = <<>>)
              [] r.t = "la" -> Here(st, Run(s, r.r, <<st>>) # <<>>)
              [] r.t = "nlb" -> Here(st, ~(i > 1 /\ s[i - 1] \in r.set))
        \* one more round of a repeated pattern before (greedy) or after (lazy)
        \* no more of it
        again == [r EXCEPT !.lo = IF r.lo > 0 THEN r.lo - 1 ELSE 0,
                           !.hi = IF r.hi > 0 THEN r.hi - 1 ELSE r.hi]
        More(st) == IF r.hi # 0 THEN RunCat(s, <<r.r, again>>, 1, 2, <<st>>) ELSE <<>>
        first == IF r.greedy THEN 1 ELSE 0
    IN  Merge(CASE r.t = "alt" ->
                    {[j |-> h * Len(r.rs) + a, res |-> Run(s, r.rs[a], <<sts[h]>>)] :
                        h \in DOMAIN sts, a \in DOMAIN r.rs}
                [] r.t = "rep" /\ r.r.t \notin {"ch", "nch"} ->
                    UNION {{[j |-> 2 * h - first, res |-> More(sts[h])],
                            [j |-> 2 * h + first - 1, res |-> Here(sts[h], r.lo = 0)]} :
                              h \in DOMAIN sts}
                [] OTHER -> {[j |-> h, res |-> From(sts[h], sts[h].i)] : h \in DOMAIN sts},
              Len(s) + 2)

\* the states after the patterns rs[lo], ..., rs[hi] one after the other
RunCat(s, rs, lo, hi, sts) ==
    IF sts = <<>> \/ lo > hi THEN sts
    ELSE IF lo = hi THEN Run(s, rs[lo], sts)
    ELSE RunCat(s, rs, ((lo + hi) \div 2) + 1, hi,
                RunCat(s, rs, lo, (lo + hi) \div 2, sts))

\* the first way in which the patterns k match s from position i on
Match(s, k, i, caps) ==
    LET First(sts) ==
            IF sts = <<>> THEN Fail
            ELSE [ok |-> TRUE, end |-> sts[1].i, caps |-> sts[1].caps]
    IN  First(RunCat(s, k, 1, Len(k), <<[i |-> i, caps |-> caps]>>))

NoCaps == <<>>

\* re.match: a match starting at the first character
ReMatch(re, s) == Match(s, <<re>>, 1, NoCaps) @@ [start |-> 1]

\* re.search from position i on: the leftmost match
SearchFrom(re, s, i) ==
    LET Leftmost(good) ==
            IF good = {} THEN Fail
            ELSE CHOOSE x \in good : \A y \in good : x.start <= y.start
    IN  Leftmost({x \in {Match(s, <<re>>, j, NoCaps) @@ [start |-> j] :
                             j \in i..(Len(s) + 1)} : x.ok})

ReSearch(re, s) == SearchFrom(re, s, 1)

\* re.finditer: the non-overlapping matches, left to right
RECURSIVE FindFrom(_, _, _)
FindFrom(re, s, i) ==
    LET Found(m) ==
            IF ~m.ok THEN <<>>
            ELSE <<m>> \o FindFrom(re, s, IF m.end > m.start THEN m.end ELSE m.end + 1)
    IN  Found(SearchFrom(re, s, i))

FindIter(re, s) == FindFrom(re, s, 1)

\* m.group(n): the text of group n, or None when the group took no part
Group(s, m, n) ==
    IF n = 0 THEN Str(SubSeq(s, m.start, m.end - 1))
    ELSE IF n \in DOMAIN m.caps
         THEN Str(SubSeq(s, m.caps[n][1], m.caps[n][2] - 1))
         ELSE None

\* rx.sub(repl, s) for a replacement without group references
RECURSIVE SubFrom(_, _, _, _)
SubFrom(re, repl, s, i) ==
    LET Found(m) ==
            IF ~m.ok THEN SubSeq(s, i, Len(s))
            ELSE SubSeq(s, i, m.start - 1) \o repl
                 \o SubFrom(re, repl, s, IF m.end > m.start THEN m.end ELSE m.end + 1)
    IN  Found(SearchFrom(re, s, i))

ReSub(re, repl, s) == SubFrom(re, repl, s, 1)

-----------------------------------------------------------------------------
(* Numbers: the float m / 10^e, kept with no trailing decimal zero *)

RECURSIVE Pow10(_)
Pow10(n) == IF n = 0 THEN 1 ELSE 10 * Pow10(n - 1)

RECURSIVE Norm(_, _)
Norm(m, e) == IF e > 0 /\ m % 10 = 0 THEN Norm(m \div 10, e - 1) ELSE Float(m, e)

RECURSIVE ParseNat(_)
ParseNat(ds) ==
    IF ds = <<>> THEN 0
    ELSE 10 * ParseNat(SubSeq(ds, 1, Len(ds) - 1)) + DigitVal(ds[Len(ds)])

\* float(s) for a decimal literal: [+-] digits [. digits]; anything else raises
PyFloat(s) ==
    LET Parsed(neg, dot, ip, fp) ==
            IF IsDigitStr(ip) /\ (dot = 0 \/ fp = <<>> \/ IsDigitStr(fp))
            THEN Norm((IF neg THEN 0 - 1 ELSE 1) * ParseNat(ip \o fp), Len(fp))
            ELSE Exc("ValueError")
        Split(body, dot) ==
            Parsed(s # <<>> /\ s[1] = "-", dot,
                   IF dot = 0 THEN body ELSE SubSeq(body, 1, dot - 1),
                   IF dot = 0 THEN <<>> ELSE SubSeq(body, dot + 1, Len(body)))
        Unsigned(body) == Split(body, LastIndexOf(body, "."))
    IN  Unsigned(IF s # <<>> /\ s[1] \in {"-", "+"} THEN Tail(s) ELSE s)

RECURSIVE DigitsOf(_)
DigitsOf(n) ==
    IF n < 10 THEN <<DigitSeq[n + 1]>> ELSE DigitsOf(n \div 10) \o <<DigitSeq[(n % 10) + 1]>>

FloatLess(a, b) == a.m * Pow10(b.e) < b.m * Pow10(a.e)
FloatAdd(a, b) == Norm(a.m * Pow10(b.e) + b.m * Pow10(a.e), a.e + b.e)
FloatMul(a, b) == Norm(a.m * b.m, a.e + b.e)
FloatAbs(a) == Float(IF a.m < 0 THEN 0 - a.m ELSE a.m, a.e)
FloatNeg(a) == Float(0 - a.m, a.e)
Zero == Float(0, 0)

-----------------------------------------------------------------------------
(* sfa_utils/normalizers.py *)

\* (?<![A-Za-z0-9$€₹.,])([S5])(?=\s?\d)
_CURRENCY_OCR_FIX ==
    Cat(<<NegBehind(Letter \cup Digit \cup {"$", EURO, RUPEE, ".", ","}),
          Grp(1, Ch({"S", "5"})),
          Ahead(Cat(<<Opt(S_), D>>))>>)

_fix_currency_ocr(s) == ReSub(_CURRENCY_OCR_FIX, <<"$">>, s)

USD == Str(<<"U","S","D">>)
EUR == Str(<<"E","U","R">>)
INR == Str(<<"I","N","R">>)

CURRENCY_MAP ==
    (<<"$">> :> USD) @@ (<<"U","S","$">> :> USD) @@ (<<"U","S","D">> :> USD)
    @@ (<<EURO>> :> EUR) @@ (<<"E","U","R">> :> EUR)
    @@ (<<RUPEE>> :> INR) @@ (<<"I","N","R">> :> INR)

\* ^\s*(?P<cur>US\$|USD|EUR|INR|[$€₹])\s*(?P<num>.*)$   IGNORECASE
CUR_RX ==
    Cat(<<Bol, Star(S_),
          Grp(1, Alt(<<LitI(<<"U","S","$">>), LitI(<<"U","S","D">>),
                       LitI(<<"E","U","R">>), LitI(<<"I","N","R">>),
                       Ch({"$", EURO, RUPEE})>>)),
          Star(S_), Grp(2, Star(Dot)), Eol>>)

\* ^\s*(?P<sign>[-(]?)\s*(?P<int>\d{1,3}(?:,\d{3})*|\d+)(?P<dec>\.\d{2})?\s*\)?\s*$
NUM_RX ==
    Cat(<<Bol, Star(S_), Grp(1, Opt(Ch({"-", "("}))), Star(S_),
          Grp(2, Alt(<<Cat(<<Rep(D, 1, 3), Star(Cat(<<Ch({","}), Rep(D, 3, 3)>>))>>),
                       Plus(D)>>)),
          Opt(Grp(3, Cat(<<Ch({"."}), Rep(D, 2, 2)>>))),
          Star(S_), Opt(Ch({")"})), Star(S_), Eol>>)

\* -?\d{1,3}(?:,\d{3})*(?:\.\d{2})
DOT_DECIMAL_RX ==
    Cat(<<Opt(Ch({"-"})), Rep(D, 1, 3), Star(Cat(<<Ch({","}), Rep(D, 3, 3)>>)),
          Cat(<<Ch({"."}), Rep(D, 2, 2)>>)>>)

\* -?\d{1,3}(?:,\d{3})*,\d{2}
COMMA_DECIMAL_RX ==
    Cat(<<Opt(Ch({"-"})), Rep(D, 1, 3), Star(Cat(<<Ch({","}), Rep(D, 3, 3)>>)),
          Ch({","}), Rep(D, 2, 2)>>)

Amount(r, v, c) == [ty |-> "Amount", raw |-> r, value |-> v, currency |-> c]

\* CURRENCY_MAP.get(cur_token)
CurrencyOf(cur_token) ==
    IF cur_token \in DOMAIN CURRENCY_MAP THEN CURRENCY_MAP[cur_token] ELSE None

\* "x or ''" for a group
OrEmpty(g) == IF g = None THEN <<>> ELSE g.s

\* the tail of normalize_amount: strip the commas and convert (lines 103-109)
AmountOf(s, cur, sign, num_str) ==
    LET Made(f) == Amount(s, IF IsExc(f) THEN None ELSE f, cur)
    IN  Made(PyFloat(sign \o Replace(num_str, <<",">>, <<>>)))

normalize_amount(r) ==
    LET Sign(negative) == IF negative THEN <<"-">> ELSE <<>>
        \* lines 94-101: the last comma of the token is the decimal point
        CommaDecimal(s, cur, token, cut, open) ==
            AmountOf(s, cur, Sign(StartsWith(Strip(token), <<"-">>) \/ open),
                     Replace(SubSeq(token, 1, cut - 1), <<",">>, <<>>)
                         \o <<".">> \o SubSeq(token, cut + 1, Len(token)))
        \* lines 81-93: the number is looked for inside num_part
        Inside(s, cur, num_part, mid, midc, open, minus) ==
            IF mid.ok
            THEN AmountOf(s, cur, Sign(open \/ minus), Group(num_part, mid, 0).s)
            ELSE IF ~midc.ok THEN Amount(s, None, cur)
            ELSE CommaDecimal(s, cur, Group(num_part, midc, 0).s,
                              LastIndexOf(Group(num_part, midc, 0).s, ","), open)
        \* lines 75-78: num_part is a number as a whole
        Whole(s, cur, num_part, m) ==
            IF m.ok
            THEN AmountOf(s, cur,
                     Sign(OrEmpty(Group(num_part, m, 1)) \in {<<"-">>, <<"(">>}),
                     OrEmpty(Group(num_part, m, 2)) \o OrEmpty(Group(num_part, m, 3)))
            ELSE Inside(s, cur, num_part,
                        ReSearch(DOT_DECIMAL_RX, num_part),
                        ReSearch(COMMA_DECIMAL_RX, num_part),
                        StartsWith(Strip(num_part), <<"(">>),
                        StartsWith(Strip(num_part), <<"-">>))
        Numbered(s, cur, num_part) == Whole(s, cur, num_part, ReMatch(NUM_RX, num_part))
        \* lines 62-72: the currency marker in front
        Marked(s, mcur) ==
            IF s = <<>> THEN Amount(<<>>, None, None)
            ELSE Numbered(s,
                     IF mcur.ok THEN CurrencyOf(StrUpper(Group(s, mcur, 1).s)) ELSE None,
                     IF mcur.ok THEN Strip(Group(s, mcur, 2).s) ELSE s)
        Fixed(s) == Marked(s, ReMatch(CUR_RX, s))
    IN  IF r = None THEN None ELSE Fixed(Strip(_fix_currency_ocr(r.s)))

-----------------------------------------------------------------------------
(* parser/extractor.py: the patterns *)

ENDASH == "ENDASH"
EMDASH == "EMDASH"
MIDDOT == "MIDDOT"
BULLET == "BULLET"
TIMES == "TIMES"

PrefixCh == Ch(Letter \cup {"$", EURO, RUPEE, "5"})      \* [A-Za-z$€₹Ss5]
NoiseCh == NotCh(Digit \cup {"$", EURO, RUPEE, "S", "s", "5"})   \* [^\d$€₹Ss5]
Thousands == Star(Cat(<<Ch({","}), Rep(D, 3, 3)>>))      \* (?:,\d{3})*
Cents == Cat(<<Ch({"."}), Rep(D, 2, 2)>>)                \* (?:\.\d{2})

\* (?:grand\s*total|amount\s*due|balance(?:\s*due)?
\*    |total(?!\s*sav(?:ing)?s?\b)(?!\s*discount\b)(?!\s*off\b))
_TOTAL_LABEL ==
    Alt(<<Cat(<<LitI(<<"g","r","a","n","d">>), Star(S_), LitI(<<"t","o","t","a","l">>)>>),
          Cat(<<LitI(<<"a","m","o","u","n","t">>), Star(S_), LitI(<<"d","u","e">>)>>),
          Cat(<<LitI(<<"b","a","l","a","n","c","e">>),
                Opt(Cat(<<Star(S_), LitI(<<"d","u","e">>)>>))>>),
          Cat(<<LitI(<<"t","o","t","a","l">>),
                NegAhead(Cat(<<Star(S_), LitI(<<"s","a","v">>),
                               Opt(LitI(<<"i","n","g">>)), Opt(LitI(<<"s">>)), WordB>>)),
                NegAhead(Cat(<<Star(S_), LitI(<<"d","i","s","c","o","u","n","t">>), WordB>>)),
                NegAhead(Cat(<<Star(S_), LitI(<<"o","f","f">>), WordB>>))>>)>>)

\* The three labelled patterns are rf-strings, so Python formats every brace
\* pair of the pattern text as an expression before the pattern is compiled:
\* {1,3} becomes (1, 3), {3} becomes 3, {2} becomes 2, {0,80} becomes (0, 80),
\* {0,120} becomes (0, 120) and {3,6} becomes (3, 6).  Under re.VERBOSE the
\* blank is dropped, and each (a, b) is a capturing group of the literal
\* text "a,b".  The patterns below are the ones that are compiled.

\* ^\s*LABEL\b[^\d$€₹Ss5]*([A-Za-z$€₹Ss5]?\s?\d(1,3)(?:,\d3)*(?:\.\d2))\b
_TOTAL_LINE_RX ==
    Cat(<<BolM, Star(S_), _TOTAL_LABEL, WordB, Star(NoiseCh),
          Grp(1, Cat(<<Opt(PrefixCh), Opt(S_), D, Grp(2, Lit(<<"1",",","3">>)),
                       Star(Cat(<<Ch({","}), D, Ch({"3"})>>)),
                       Cat(<<Ch({"."}), D, Ch({"2"})>>)>>)),
          WordB>>)

\* ^\s*LABEL\b.(0,80)?(\d(1,3)(?:,\d3)*)\s+(\d2)\b
_TOTAL_SPLIT_RX ==
    Cat(<<BolM, Star(S_), _TOTAL_LABEL, WordB, Dot,
          Opt(Grp(1, Lit(<<"0",",","8","0">>))),
          Grp(2, Cat(<<D, Grp(3, Lit(<<"1",",","3">>)),
                       Star(Cat(<<Ch({","}), D, Ch({"3"})>>))>>)),
          Plus(S_), Grp(4, Cat(<<D, Ch({"2"})>>)), WordB>>)

\* ^\s*LABEL\b.(0,120)?(\d(3,6))\s*$
_TOTAL_IMPLIED_RX ==
    Cat(<<BolM, Star(S_), _TOTAL_LABEL, WordB, Dot,
          Opt(Grp(1, Lit(<<"0",",","1","2","0">>))),
          Grp(2, Cat(<<D, Grp(3, Lit(<<"3",",","6">>))>>)),
          Star(S_), EolM>>)

\* net\W*pay\b[^\d$€₹Ss5]*([A-Za-z$€₹Ss5]?\s?\d{1,3}(?:,\d{3})*(?:\.\d{2}))\b
_NETPAY_RX ==
    Cat(<<LitI(<<"n","e","t">>), Star(W_), LitI(<<"p","a","y">>), WordB, Star(NoiseCh),
          Grp(1, Cat(<<Opt(PrefixCh), Opt(S_), Rep(D, 1, 3), Thousands, Cents>>)),
          WordB>>)

\* net\W*pay\b[^\d$€₹Ss5]*([A-Za-z$€₹Ss5]?\s*\d[\d,]*\s*(?:[.,]\s*\d{2}))
NETPAY_LOOSE_RX ==
    Cat(<<LitI(<<"n","e","t">>), Star(W_), LitI(<<"p","a","y">>), WordB, Star(NoiseCh),
          Grp(1, Cat(<<Opt(PrefixCh), Star(S_), D, Star(Ch(Digit \cup {","})), Star(S_),
                       Cat(<<Ch({".", ","}), Star(S_), Rep(D, 2, 2)>>)>>))>>)

\* ([A-Za-z$€₹Ss5]?\s?\d{1,3}(?:,\d{3})*(?:\.\d{2}))
_MONEY_RX == Grp(1, Cat(<<Opt(PrefixCh), Opt(S_), Rep(D, 1, 3), Thousands, Cents>>))

\* (\d{1,3}(?:,\d{3})*)\s*[.,]\s*(\d{2})
_SPACY_DEC_RX ==
    Cat(<<Grp(1, Cat(<<Rep(D, 1, 3), Thousands>>)), Star(S_), Ch({".", ","}), Star(S_),
          Grp(2, Rep(D, 2, 2))>>)

\* (\d{1,3}(?:,\d{3})*)\s+(\d{2})\b
_SPACY_PURE_RX ==
    Cat(<<Grp(1, Cat(<<Rep(D, 1, 3), Thousands>>)), Plus(S_), Grp(2, Rep(D, 2, 2)), WordB>>)

\* [A-Za-z$€₹Ss5]?\s*(\d{1,3}(?:,\d{3})*)\s*[-–—·\.,]?\s*(\d{2})\b
_SPACY_ANYSEP_RX ==
    Cat(<<Opt(PrefixCh), Star(S_), Grp(1, Cat(<<Rep(D, 1, 3), Thousands>>)), Star(S_),
          Opt(Ch({"-", ENDASH, EMDASH, MIDDOT, ".", ","})), Star(S_),
          Grp(2, Rep(D, 2, 2)), WordB>>)

\* ^\s*[A-Za-z$€₹Ss5]?\s*(?:\d[\d,\s]*(?:[.,]\s*\d{2})?|\d{3,6})\s*$
_NUMERIC_ONLY_LINE_RX ==
    Cat(<<Bol, Star(S_), Opt(PrefixCh), Star(S_),
          Alt(<<Cat(<<D, Star(Ch(Digit \cup {","} \cup WhiteSpace)),
                      Opt(Cat(<<Ch({".", ","}), Star(S_), Rep(D, 2, 2)>>))>>),
                Rep(D, 3, 6)>>),
          Star(S_), Eol>>)

\* the ignore list with the key "you saved" left out
IgnoreContextWithoutYouSaved ==
    << <<"s","a","v","i","n","g">>, <<"s","a","v","i","n","g","s">>,
       <<"d","i","s","c","o","u","n","t">>,
       <<"c","o","u","p","o","n">>, <<"c","l","u","b">>,
       <<"j","u","s","t"," ","f","o","r"," ","u">>, <<"p","r","o","m","o">>,
       <<"p","r","o","m","o","t","i","o","n">>, <<"c","a","s","h","b","a","c","k">>,
       <<"c","a","s","h"," ","b","a","c","k">>, <<"%"," ","o","f","f">>,
       <<" ","p","e","r","c","e","n","t"," ","o","f","f">>,
       <<"m","f","r"," ","c","o","u","p","o","n">>,
       <<"m","a","n","u","f","a","c","t","u","r","e","r"," ","c","o","u","p","o","n">>,
       <<"s","t","o","r","e"," ","c","o","u","p","o","n">>,
       <<"m","a","r","k","d","o","w","n">>, <<"d","e","a","l">> >>

_IGNORE_TOTAL_CONTEXT ==
    << <<"s","a","v","i","n","g">>, <<"s","a","v","i","n","g","s">>,
       <<"y","o","u"," ","s","a","v","e","d">>, <<"d","i","s","c","o","u","n","t">>,
       <<"c","o","u","p","o","n">>, <<"c","l","u","b">>,
       <<"j","u","s","t"," ","f","o","r"," ","u">>, <<"p","r","o","m","o">>,
       <<"p","r","o","m","o","t","i","o","n">>, <<"c","a","s","h","b","a","c","k">>,
       <<"c","a","s","h"," ","b","a","c","k">>, <<"%"," ","o","f","f">>,
       <<" ","p","e","r","c","e","n","t"," ","o","f","f">>,
       <<"m","f","r"," ","c","o","u","p","o","n">>,
       <<"m","a","n","u","f","a","c","t","u","r","e","r"," ","c","o","u","p","o","n">>,
       <<"s","t","o","r","e"," ","c","o","u","p","o","n">>,
       <<"m","a","r","k","d","o","w","n">>, <<"d","e","a","l">> >>

_is_numeric_only_line(s) == ReMatch(_NUMERIC_ONLY_LINE_RX, s).ok

-----------------------------------------------------------------------------
(* parser/extractor.py: the modern extract() *)

Dict(r, v, c) == [ty |-> "dict", raw |-> r, value |-> v, currency |-> c]
EmptyAmountDict == Dict(<<>>, None, None)

\* str(x) inside an f-string
Fmt(g) == IF g = None THEN <<"N","o","n","e">> ELSE g.s

\* getattr(obj, name, None)
GetAttr(obj, name) == IF name \in DOMAIN obj THEN obj[name] ELSE None

\* ^{label}\s*[:\-]?\s*\$?\s*([0-9]+(?:\.[0-9]+)?)\s*$
MoneyLinePat(label) ==
    Cat(<<Bol, LitI(label), Star(S_), Opt(Ch({":", "-"})), Star(S_), Opt(Ch({"$"})),
          Star(S_),
          Grp(1, Cat(<<Plus(D), Opt(Cat(<<Ch({"."}), Plus(D)>>))>>)),
          Star(S_), Eol>>)

RECURSIVE MoneyLineFrom(_, _, _)
MoneyLineFrom(pat, lines, i) ==
    LET Value(f) == IF IsExc(f) THEN None ELSE f
        Matched(line, m) ==
            IF m.ok THEN Value(PyFloat(Group(line, m, 1).s))
            ELSE MoneyLineFrom(pat, lines, i + 1)
        OnLine(line) == Matched(line, ReMatch(pat, line))
    IN  IF i > Len(lines) THEN None ELSE OnLine(Strip(lines[i]))

_parse_money_line(label, t) == MoneyLineFrom(MoneyLinePat(label), SplitLines(t), 1)

\* datetime(y, mo, d): the date, or ValueError
IsLeap(y) == (y % 4 = 0 /\ y % 100 # 0) \/ y % 400 = 0
DaysIn(y, mo) ==
    IF mo = 2 THEN (IF IsLeap(y) THEN 29 ELSE 28)
    ELSE IF mo \in {4, 6, 9, 11} THEN 30 ELSE 31
Pad(n, w) == [k \in 1..w |-> DigitSeq[((n \div Pow10(w - k)) % 10) + 1]] \o <<>>
\* the date written day first
IsoFormatDayFirst(y, mo, d) ==
    Str(Pad(d, 2) \o <<"-">> \o Pad(mo, 2) \o <<"-">> \o Pad(y, 4))
IsoFormat(y, mo, d) == Str(Pad(y, 4) \o <<"-">> \o Pad(mo, 2) \o <<"-">> \o Pad(d, 2))
datetime(y, mo, d) ==
    IF y >= 1 /\ y <= 9999 /\ mo >= 1 /\ mo <= 12 /\ d >= 1 /\ d <= DaysIn(y, mo)
    THEN IsoFormat(y, mo, d) ELSE Exc("ValueError")

\* \b(20\d{2})[-/](\d{1,2})[-/](\d{1,2})\b
DATE_YMD_RX ==
    Cat(<<WordB, Grp(1, Cat(<<Lit(<<"2","0">>), Rep(D, 2, 2)>>)), Ch({"-", "/"}),
          Grp(2, Rep(D, 1, 2)), Ch({"-", "/"}), Grp(3, Rep(D, 1, 2)), WordB>>)

\* \b(\d{1,2})/(\d{1,2})/(20\d{2})\b
DATE_MDY_RX ==
    Cat(<<WordB, Grp(1, Rep(D, 1, 2)), Ch({"/"}), Grp(2, Rep(D, 1, 2)), Ch({"/"}),
          Grp(3, Cat(<<Lit(<<"2","0">>), Rep(D, 2, 2)>>)), WordB>>)

\* the try block of _parse_date: a ValueError is passed over
DateOrPass(dt, otherwise) == IF IsExc(dt) THEN otherwise ELSE dt

_parse_date(t) ==
    LET Date(m, y, mo, d) ==
            datetime(ParseNat(Group(t, m, y).s), ParseNat(Group(t, m, mo).s),
                     ParseNat(Group(t, m, d).s))
        Second(m2) == IF m2.ok THEN DateOrPass(Date(m2, 3, 1, 2), None) ELSE None
        First(m1, second) == IF m1.ok THEN DateOrPass(Date(m1, 1, 2, 3), second) ELSE second
    IN  First(ReSearch(DATE_YMD_RX, t), Second(ReSearch(DATE_MDY_RX, t)))

RECURSIVE VendorFrom(_, _)
VendorFrom(lines, i) ==
    IF i > Len(lines) THEN None
    ELSE LET v == Strip(lines[i])
         IN  IF Len(v) > 0 /\ Len(v) <= 50 /\ \E k \in DOMAIN v : v[k] \in Letter
             THEN Str(v) ELSE VendorFrom(lines, i + 1)

_parse_vendor(t) == VendorFrom(SplitLines(t), 1)

\* ^[\-\*•]\s*(.+?)\s+(\d+(?:\.\d+)?)\s*[x@]\s*(\d+(?:\.\d+)?)\s*=\s*(\d+(?:\.\d+)?)$
Number == Cat(<<Plus(D), Opt(Cat(<<Ch({"."}), Plus(D)>>))>>)
LINE_ITEM_RX ==
    Cat(<<Bol, Ch({"-", "*", BULLET}), Star(S_), Grp(1, LazyPlus(Dot)), Plus(S_),
          Grp(2, Number), Star(S_), Ch({"x", "X", "@"}), Star(S_), Grp(3, Number),
          Star(S_), Ch({"="}), Star(S_), Grp(4, Number), Eol>>)

RECURSIVE LineItemsFrom(_, _)
LineItemsFrom(lines, i) ==
    LET Item(line, m) ==
            [desc |-> Strip(Group(line, m, 1).s),
             qty |-> PyFloat(Group(line, m, 2).s),
             unit_price |-> PyFloat(Group(line, m, 3).s),
             amount |-> PyFloat(Group(line, m, 4).s)]
        Matched(line, m) == IF m.ok THEN <<Item(line, m)>> ELSE <<>>
        OnLine(line) == Matched(line, ReMatch(LINE_ITEM_RX, line))
    IN  IF i > Len(lines) THEN <<>>
        ELSE OnLine(Strip(lines[i])) \o LineItemsFrom(lines, i + 1)

_parse_line_items(t) == LineItemsFrom(SplitLines(t), 1)

\* float(x), or 0.0 when it raises
_safe_float(x) == IF x.ty = "float" THEN x ELSE Zero

\* round(x, n), on the decimal: half to even
Round(x, n) ==
    LET Rounded(unit, a) ==
            IF 2 * (a % unit) > unit \/ (2 * (a % unit) = unit /\ (a \div unit) % 2 = 1)
            THEN a \div unit + 1 ELSE a \div unit
        Magnitude == Rounded(Pow10(x.e - n), IF x.m < 0 THEN 0 - x.m ELSE x.m)
    IN  IF x.e <= n THEN x
        ELSE Norm((IF x.m < 0 THEN 0 - 1 ELSE 1) * Magnitude, n)

\* the first n decimal digits of r / den (r < den), with the remainder left
RECURSIVE LongDiv(_, _, _, _)
LongDiv(q, r, den, n) ==
    IF n = 0 THEN [q |-> q, r |-> r]
    ELSE LongDiv(10 * q + (10 * r) \div den, (10 * r) % den, den, n - 1)

\* round(a / b, n) for b > 0 and a >= 0, on the decimals: half to even
RoundDiv(a, b, n) ==
    LET Rounded(d, den) ==
            Norm(IF 2 * d.r > den \/ (2 * d.r = den /\ d.q % 2 = 1)
                 THEN d.q + 1 ELSE d.q, n)
        Divided(num, den) == Rounded(LongDiv(num \div den, num % den, den, n), den)
        Scaled(E) == Divided(a.m * Pow10(E - a.e), b.m * Pow10(E - b.e))
    IN  Scaled(IF a.e > b.e THEN a.e ELSE b.e)

RECURSIVE ItemsSum(_)
ItemsSum(items) ==
    LET Line(li) ==
            IF "unit_price" \in DOMAIN li
            THEN FloatMul(_safe_float(IF "qty" \in DOMAIN li THEN li.qty ELSE Float(1, 0)),
                          _safe_float(li.unit_price))
            ELSE _safe_float(IF "amount" \in DOMAIN li THEN li.amount ELSE Zero)
    IN  IF items = <<>> THEN Zero
        ELSE FloatAdd(ItemsSum(SubSeq(items, 1, Len(items) - 1)), Line(items[Len(items)]))

compute_sanity(line_items, subtotal) ==
    LET floor == Float(1, 2)
        Pct(sub, diff) ==
            IF FloatLess(Zero, sub)
            THEN RoundDiv(diff, IF FloatLess(sub, floor) THEN floor ELSE sub, 4)
            ELSE Zero
        Sanity(li_sum, sub, diff) ==
            [items_subtotal_sum |-> li_sum,
             items_subtotal_diff |-> diff,
             items_subtotal_pct |-> Pct(sub, diff)]
        Diff(li_sum, sub) ==
            Sanity(li_sum, sub, Round(FloatAbs(FloatAdd(li_sum, FloatNeg(sub))), 2))
    IN  Diff(Round(ItemsSum(line_items), 2), _safe_float(subtotal))

extract(t) ==
    LET Doc(subtotal, line_items) ==
            [ty |-> "ParsedDoc",
             vendor |-> _parse_vendor(t),
             date |-> _parse_date(t),
             line_items |-> line_items,
             totals |-> [ty |-> "ParsedTotals",
                         subtotal |-> subtotal,
                         tax |-> _parse_money_line(<<"t","a","x">>, t),
                         tip |-> _parse_money_line(<<"t","i","p">>, t),
                         total |-> _parse_money_line(<<"t","o","t","a","l">>, t),
                         reconciled_total_used |-> FALSE],
             sanity |-> compute_sanity(line_items, subtotal),
             meta |-> [source_path |-> <<>>]]
    IN  Doc(_parse_money_line(<<"s","u","b","t","o","t","a","l">>, t),
            _parse_line_items(t))

-----------------------------------------------------------------------------
(* parser/extractor.py: the legacy adapter *)

PAYSTUB == Str(<<"p","a","y","s","t","u","b">>)
INVOICE == Str(<<"i","n","v","o","i","c","e">>)

\* "if not tok" is true of None and of the empty string
_norm_amount_token(tok) ==
    LET AsDict(amt) == Dict(amt.raw, amt.value, amt.currency)
    IN  IF tok = None \/ tok.s = <<>> THEN EmptyAmountDict
        ELSE AsDict(normalize_amount(tok))

_infer_kind(t) ==
    LET low == StrLower(t)
    IN  IF \/ Contains(low, <<"n","e","t"," ","p","a","y">>)
           \/ Contains(low, <<"p","a","y"," ","p","e","r","i","o","d">>)
           \/ Contains(low, <<"p","a","y","s","t","u","b">>)
           \/ Contains(low, <<"p","a","y"," ","s","t","u","b">>)
        THEN PAYSTUB
        ELSE IF \/ Contains(low, <<"i","n","v","o","i","c","e">>)
                \/ /\ Contains(low, <<"s","u","b","t","o","t","a","l">>)
                   /\ Contains(low, <<"t","o","t","a","l">>)
        THEN INVOICE
        ELSE None

\* \b{_TOTAL_LABEL}\b
LABEL_WORD_RX == Cat(<<WordB, _TOTAL_LABEL, WordB>>)

\* ^\s*(\d{3,6})\s*$
IMPLIED_LINE_RX == Cat(<<Bol, Star(S_), Grp(1, Rep(D, 3, 6)), Star(S_), Eol>>)

\* (\d{1,3}(?:,\d{3})*)\s+(\d{2})\s*$
TAIL_SPLIT_RX ==
    Cat(<<Grp(1, Cat(<<Rep(D, 1, 3), Thousands>>)), Plus(S_), Grp(2, Rep(D, 2, 2)),
          Star(S_), Eol>>)

\* (\d{3,6})\s*$
TAIL_IMPLIED_RX == Cat(<<Grp(1, Rep(D, 3, 6)), Star(S_), Eol>>)

\* f"{a}.{b}" of two groups
Joined(s, m, a, b) == Str(Fmt(Group(s, m, a)) \o <<".">> \o Fmt(Group(s, m, b)))

\* f"{d[:-2]}.{d[-2:]}"
ImpliedCents(d) ==
    Str(SubSeq(d, 1, Len(d) - 2) \o <<".">>
        \o SubSeq(d, IF Len(d) > 2 THEN Len(d) - 1 ELSE 1, Len(d)))

\* step 3a, the amount on line j after a label line: a token, or None
NextLineAmount(lines, j) ==
    LET Token(nxt, m_money, m_sp, m_pure, m_imp) ==
            IF m_money.ok THEN Group(nxt, m_money, 1)
            ELSE IF m_sp.ok THEN Joined(nxt, m_sp, 1, 2)
            ELSE IF m_pure.ok THEN Joined(nxt, m_pure, 1, 2)
            ELSE IF m_imp.ok THEN ImpliedCents(Group(nxt, m_imp, 1).s)
            ELSE None
        OnLine(nxt) ==
            IF ~_is_numeric_only_line(nxt) THEN None
            ELSE Token(nxt, ReSearch(_MONEY_RX, nxt), ReSearch(_SPACY_DEC_RX, nxt),
                       ReSearch(_SPACY_PURE_RX, nxt), ReMatch(IMPLIED_LINE_RX, nxt))
    IN  OnLine(Strip(lines[j]))

\* step 3a: the first label line with an amount on one of its next two lines
RECURSIVE SplitLabelFrom(_, _)
SplitLabelFrom(lines, i) ==
    LET After(nexts) ==
            IF nexts[1] # None THEN nexts[1]
            ELSE IF nexts[2] # None THEN nexts[2]
            ELSE SplitLabelFrom(lines, i + 1)
    IN  IF i > Len(lines) THEN None
        ELSE IF ~ReSearch(LABEL_WORD_RX, StrLower(lines[i])).ok
             THEN SplitLabelFrom(lines, i + 1)
        ELSE After([d \in 1..2 |-> IF i + d <= Len(lines)
                                   THEN NextLineAmount(lines, i + d) ELSE None])

\* the tokens of the matches of a two-group pattern on a line
Pairs(rx, line) ==
    LET Tokens(ms) == [k \in DOMAIN ms |-> Joined(line, ms[k], 1, 2)] \o <<>>
    IN  Tokens(FindIter(rx, line))

\* step 4, the candidates that one line adds
LineCandidates(line) ==
    LET Labelled(low) ==
            \/ Contains(low, <<"t","o","t","a","l">>)
            \/ Contains(low, <<"a","m","o","u","n","t"," ","d","u","e">>)
            \/ Contains(low, <<"g","r","a","n","d"," ","t","o","t","a","l">>)
            \/ Contains(low, <<"b","a","l","a","n","c","e">>)
        Money(money) == [k \in DOMAIN money |-> Group(line, money[k], 1)] \o <<>>
        Spacy(rxs) == Pairs(rxs[1], line) \o Pairs(rxs[2], line) \o Pairs(rxs[3], line)
        Trailing(labelled, m_tail_sp, m_tail_imp) ==
            (IF labelled /\ m_tail_sp.ok THEN <<Joined(line, m_tail_sp, 1, 2)>> ELSE <<>>)
            \o (IF labelled /\ m_tail_imp.ok
                THEN <<ImpliedCents(Group(line, m_tail_imp, 1).s)>> ELSE <<>>)
    IN  Money(FindIter(_MONEY_RX, line))
        \o Spacy(<<_SPACY_DEC_RX, _SPACY_PURE_RX, _SPACY_ANYSEP_RX>>)
        \o Trailing(Labelled(Strip(StrLower(line))),
                    ReSearch(TAIL_SPLIT_RX, line), ReSearch(TAIL_IMPLIED_RX, line))

IsNegativeContext(line) ==
    LET low == Strip(StrLower(line))
    IN  \E k \in DOMAIN _IGNORE_TOTAL_CONTEXT : Contains(low, _IGNORE_TOTAL_CONTEXT[k])

\* step 4, the scan: prev_ctx counts the numeric-only lines still to ignore
RECURSIVE CandidatesFrom(_, _, _)
CandidatesFrom(lines, i, prev_ctx) ==
    IF i > Len(lines) THEN <<>>
    ELSE IF prev_ctx > 0 /\ _is_numeric_only_line(lines[i])
         THEN CandidatesFrom(lines, i + 1, prev_ctx - 1)
    ELSE IF IsNegativeContext(lines[i])
         THEN CandidatesFrom(lines, i + 1, 2)
    ELSE LineCandidates(lines[i]) \o CandidatesFrom(lines, i + 1, prev_ctx)

\* step 4, the choice: the first candidate of the greatest value
RECURSIVE BestFrom(_, _, _, _)
BestFrom(cands, k, best_tok, best_val) ==
    LET Better(val) ==
            IF val # None /\ (best_val = None \/ FloatLess(best_val, val))
            THEN BestFrom(cands, k + 1, cands[k], val)
            ELSE BestFrom(cands, k + 1, best_tok, best_val)
    IN  IF k > Len(cands) THEN best_tok
        ELSE Better(normalize_amount(cands[k]).value)

_find_total_in_text(t) ==
    LET \* step 4: the greatest of the candidates
        Scan(lines) == BestFrom(CandidatesFrom(lines, 1, 0), 1, None, None)
        \* step 3a: a label line and the amount on a line after it
        Split(lines, split) == IF split # None THEN split ELSE Scan(lines)
        Lines(lines) == Split(lines, SplitLabelFrom(lines, 1))
        \* step 3: the digits after the label, the last two being the cents
        Implied(m3, digits) ==
            IF m3.ok /\ digits = None THEN Exc("AttributeError")
            ELSE IF m3.ok /\ IsDigitStr(digits.s)
                 THEN (IF Len(digits.s) > 2 THEN ImpliedCents(digits.s)
                       ELSE Str(<<"0", ".">>
                                \o [k \in 1..(2 - Len(digits.s)) |-> "0"] \o digits.s))
            ELSE Lines(SplitLines(t))
        \* steps 1 and 2: the amount on the label's line, whole or split
        Token(m, m2, m3) ==
            IF m.ok THEN Group(t, m, 1)
            ELSE IF m2.ok THEN Joined(t, m2, 1, 2)
            ELSE Implied(m3, Group(t, m3, 1))
        Returned(tok) == IF IsExc(tok) THEN tok ELSE _norm_amount_token(tok)
    IN  Returned(Token(ReSearch(_TOTAL_LINE_RX, t), ReSearch(_TOTAL_SPLIT_RX, t),
                       ReSearch(_TOTAL_IMPLIED_RX, t)))

_find_netpay_in_text(t) ==
    LET Loose(tok) ==
            Str(Replace(Replace(Replace(Replace(tok,
                    <<" ">>, <<>>), <<",">>, <<>>), <<".", ",">>, <<".">>),
                    <<",", ".">>, <<".">>))
        Token(m, m2) ==
            IF m.ok THEN Group(t, m, 1)
            ELSE IF m2.ok THEN Loose(Group(t, m2, 1).s)
            ELSE None
        Returned(tok, found) == IF found THEN _norm_amount_token(tok) ELSE None
        Found(m, m2) == Returned(Token(m, m2), m.ok \/ m2.ok)
    IN  Found(ReSearch(_NETPAY_RX, t), ReSearch(NETPAY_LOOSE_RX, t))

_as_amount_dict(a) ==
    IF a = None THEN EmptyAmountDict
    ELSE Dict(IF GetAttr(a, "raw") = None THEN <<>> ELSE a.raw,
              GetAttr(a, "value"), GetAttr(a, "currency"))

extract_from_text(t) ==
    LET Result(kind2, total, net) ==
            IF IsExc(total) THEN total
            ELSE [ty |-> "dict", kind |-> kind2, total |-> total,
                  net_pay |-> IF kind2 = PAYSTUB /\ net = None THEN total ELSE net]
        Total(kind1, total0, net) ==
            Result(IF net # None /\ kind1 = None THEN PAYSTUB ELSE kind1,
                   IF total0.value = None
                   THEN (IF net # None THEN net ELSE _find_total_in_text(t))
                   ELSE total0,
                   net)
        Kind(kind0, total0) ==
            Total(IF kind0 = None THEN _infer_kind(t) ELSE kind0, total0,
                  _find_netpay_in_text(t))
        Modern(d) ==
            Kind(GetAttr(d, "kind"),
                 _as_amount_dict(
                     IF GetAttr(d, "total") = None /\ "totals" \in DOMAIN d
                        /\ d.totals.ty = "dict"
                     THEN d.totals.total ELSE GetAttr(d, "total")))
    IN  Modern(extract(t))

-----------------------------------------------------------------------------
(* parser/doc_type.py *)

INVOICE_TOKENS ==
    << [k |-> <<"i","n","v","o","i","c","e">>, w |-> 3],
       [k |-> <<"s","u","b","t","o","t","a","l">>, w |-> 1],
       [k |-> <<"t","a","x">>, w |-> 1],
       [k |-> <<"g","s","t">>, w |-> 1],
       [k |-> <<"v","a","t">>, w |-> 1],
       [k |-> <<"a","m","o","u","n","t"," ","d","u","e">>, w |-> 2],
       [k |-> <<"b","a","l","a","n","c","e"," ","d","u","e">>, w |-> 2],
       [k |-> <<"p","u","r","c","h","a","s","e"," ","o","r","d","e","r">>, w |-> 2],
       [k |-> <<"p","o"," ","#">>, w |-> 2],
       [k |-> <<"b","i","l","l"," ","t","o">>, w |-> 2],
       [k |-> <<"s","h","i","p"," ","t","o">>, w |-> 1] >>

PAYSTUB_TOKENS ==
    << [k |-> <<"p","a","y"," ","p","e","r","i","o","d">>, w |-> 3],
       [k |-> <<"g","r","o","s","s"," ","p","a","y">>, w |-> 2],
       [k |-> <<"n","e","t"," ","p","a","y">>, w |-> 3],
       [k |-> <<"y","t","d">>, w |-> 1],
       [k |-> <<"e","a","r","n","i","n","g","s">>, w |-> 1],
       [k |-> <<"d","e","d","u","c","t","i","o","n","s">>, w |-> 1],
       [k |-> <<"e","m","p","l","o","y","e","e">>, w |-> 1],
       [k |-> <<"p","a","y"," ","d","a","t","e">>, w |-> 2],
       [k |-> <<"h","o","u","r","s">>, w |-> 1],
       [k |-> <<"r","a","t","e">>, w |-> 1] >>

\* sum(w for k, w in tokens.items() if k in t)
RECURSIVE TokenSum(_, _, _)
TokenSum(tokens, t, n) ==
    IF n = 0 THEN 0
    ELSE TokenSum(tokens, t, n - 1) + (IF Contains(t, tokens[n].k) THEN tokens[n].w ELSE 0)

\* the scorer with equal sums classified as paystub
ScoreTiesToPaystub(t) ==
    LET Scored(inv, pay) ==
            [ty |-> "DocTypeScore", invoice |-> inv, paystub |-> pay,
             kind |-> IF inv > pay THEN Str(<<"i","n","v","o","i","c","e">>)
                                   ELSE Str(<<"p","a","y","s","t","u","b">>)]
        Lowered(low) ==
            Scored(TokenSum(INVOICE_TOKENS, low, Len(INVOICE_TOKENS)),
                   TokenSum(PAYSTUB_TOKENS, low, Len(PAYSTUB_TOKENS)))
    IN  Lowered(StrLower(t))

score(t) ==
    LET Scored(inv, pay) ==
            [ty |-> "DocTypeScore", invoice |-> inv, paystub |-> pay,
             kind |-> IF inv >= pay THEN Str(<<"i","n","v","o","i","c","e">>)
                                    ELSE Str(<<"p","a","y","s","t","u","b">>)]
        Lowered(low) ==
            Scored(TokenSum(INVOICE_TOKENS, low, Len(INVOICE_TOKENS)),
                   TokenSum(PAYSTUB_TOKENS, low, Len(PAYSTUB_TOKENS)))
    IN  Lowered(StrLower(t))

-----------------------------------------------------------------------------
(* sfa_utils/normalizers.py: dates *)

MONTHS ==
    (<<"J","A","N">> :> 1)
    @@ (<<"F","E","B">> :> 2)
    @@ (<<"M","A","R">> :> 3)
    @@ (<<"A","P","R">> :> 4)
    @@ (<<"M","A","Y">> :> 5)
    @@ (<<"J","U","N">> :> 6)
    @@ (<<"J","U","L">> :> 7)
    @@ (<<"A","U","G">> :> 8)
    @@ (<<"S","E","P">> :> 9)
    @@ (<<"S","E","P","T">> :> 9)
    @@ (<<"O","C","T">> :> 10)
    @@ (<<"N","O","V">> :> 11)
    @@ (<<"D","E","C">> :> 12)

\* ^\s*(\d{1,2})[/-](\d{1,2})[/-](\d{2,4})\s*$
MDY_RX ==
    Cat(<<Bol, Star(S_), Grp(1, Rep(D, 1, 2)), Ch({"/", "-"}), Grp(2, Rep(D, 1, 2)),
          Ch({"/", "-"}), Grp(3, Rep(D, 2, 4)), Star(S_), Eol>>)

\* ^\s*(\d{4})[./-](\d{1,2})[./-](\d{1,2})\s*$
YMD_RX ==
    Cat(<<Bol, Star(S_), Grp(1, Rep(D, 4, 4)), Ch({".", "/", "-"}), Grp(2, Rep(D, 1, 2)),
          Ch({".", "/", "-"}), Grp(3, Rep(D, 1, 2)), Star(S_), Eol>>)

\* ^\s*([A-Za-z]{3,})\s+(\d{1,2}),?\s+(\d{2,4})\s*$
MON_D_Y_RX ==
    Cat(<<Bol, Star(S_), Grp(1, Rep(Ch(Letter), 3, -1)), Plus(S_), Grp(2, Rep(D, 1, 2)),
          Opt(Ch({","})), Plus(S_), Grp(3, Rep(D, 2, 4)), Star(S_), Eol>>)

_clip_year(y) ==
    IF y < 100 THEN (IF y < 70 THEN 2000 + y ELSE 1900 + y) ELSE y

\* s.rstrip(".")
RECURSIVE RStripDots(_)
RStripDots(s) ==
    IF s # <<>> /\ s[Len(s)] = "." THEN RStripDots(SubSeq(s, 1, Len(s) - 1)) ELSE s

\* MONTHS.get(name.strip().upper()[:4].rstrip("."), None); 0 stands for the
\* None of a name that is no key ("if mon" is false of both)
MonthOf(name) ==
    LET Looked(key) == IF key \in DOMAIN MONTHS THEN MONTHS[key] ELSE 0
        Cut(up) == Looked(RStripDots(SubSeq(up, 1, IF Len(up) < 4 THEN Len(up) ELSE 4)))
    IN  Cut(StrUpper(Strip(name)))

to_iso_date(r) ==
    LET IntOf(s, m, n) == ParseNat(Group(s, m, n).s)
        \* datetime(...).date().isoformat(), or None when datetime raises
        Iso(dt) == IF IsExc(dt) THEN None ELSE dt
        \* lines 167-179: day and month in either order
        Ordered(a, b, y) ==
            Iso(IF a > 12 /\ b <= 12 THEN datetime(y, b, a) ELSE datetime(y, a, b))
        ByNumbers(s, m) ==
            IF m.ok
            THEN Ordered(IntOf(s, m, 1), IntOf(s, m, 2), _clip_year(IntOf(s, m, 3)))
            ELSE None
        \* lines 156-165: a month name, the day, the year
        Named(s, m, mon) ==
            IF m.ok /\ mon # 0
            THEN Iso(datetime(_clip_year(IntOf(s, m, 3)), mon, IntOf(s, m, 2)))
            ELSE ByNumbers(s, ReMatch(MDY_RX, s))
        ByName(s, m) == Named(s, m, IF m.ok THEN MonthOf(Group(s, m, 1).s) ELSE 0)
        \* lines 146-154: year, month, day
        YearFirst(s, m) ==
            IF m.ok THEN Iso(datetime(IntOf(s, m, 1), IntOf(s, m, 2), IntOf(s, m, 3)))
            ELSE ByName(s, ReMatch(MON_D_Y_RX, s))
        Stripped(s) == YearFirst(s, ReMatch(YMD_RX, s))
    IN  IF r = None \/ r.s = <<>> THEN None ELSE Stripped(Strip(r.s))

-----------------------------------------------------------------------------
(* parser/lineitems.py *)

\* [S$€₹]?\s?\d{1,3}(?:,\d{3})*\.\d{2}   IGNORECASE
AmountTok ==
    Cat(<<Opt(Ch({"S", "s", "$", EURO, RUPEE})), Opt(S_), Rep(D, 1, 3), Thousands, Cents>>)

\* \d+(?:\.\d+)?
QtyTok == Cat(<<Plus(D), Opt(Cat(<<Ch({"."}), Plus(D)>>))>>)

\* (lb|kg)   IGNORECASE
WeightUnit == Alt(<<LitI(<<"l","b">>), LitI(<<"k","g">>)>>)

\* ^\s*(?P<desc>.+?)\s+(?P<qty>\d+(?:\.\d+)?)\s*(lb|kg)\s*@\s*
\* (?P<unit>\d+(?:\.\d+))\s*/\s*(lb|kg).*?(?P<total>AmountTok)\s*$
ROW_RX_WEIGHTED ==
    Cat(<<Bol, Star(S_), Grp(1, LazyPlus(Dot)), Plus(S_), Grp(2, QtyTok), Star(S_),
          Grp(3, WeightUnit), Star(S_), Ch({"@"}), Star(S_),
          Grp(4, Cat(<<Plus(D), Ch({"."}), Plus(D)>>)), Star(S_), Ch({"/"}), Star(S_),
          Grp(5, WeightUnit), LazyStar(Dot), Grp(6, AmountTok), Star(S_), Eol>>)

\* ^\s*(?P<qty>\d+(?:\.\d+)?)\s+(?P<desc>.+?)\s+(?P<unit>AmountTok)\s+
\* (?P<total>AmountTok)\s*$
ROW_RX_QTY_UNIT_TOTAL ==
    Cat(<<Bol, Star(S_), Grp(1, QtyTok), Plus(S_), Grp(2, LazyPlus(Dot)), Plus(S_),
          Grp(3, AmountTok), Plus(S_), Grp(4, AmountTok), Star(S_), Eol>>)

\* ^\s*(?P<desc>.+?)\s+(?P<unit>AmountTok)\s*[x×]\s*(?P<qty>\d+(?:\.\d+)?)\s+.*?
\* (?P<total>AmountTok)\s*$
ROW_RX_XFORM ==
    Cat(<<Bol, Star(S_), Grp(1, LazyPlus(Dot)), Plus(S_), Grp(2, AmountTok), Star(S_),
          Ch({"x", "X", TIMES}), Star(S_), Grp(3, QtyTok), Plus(S_), LazyStar(Dot),
          Grp(4, AmountTok), Star(S_), Eol>>)

\* ^\s*(?P<desc>.+?)\s+(?P<total>AmountTok)\s*$
ROW_RX_SIMPLE ==
    Cat(<<Bol, Star(S_), Grp(1, LazyPlus(Dot)), Plus(S_), Grp(2, AmountTok),
          Star(S_), Eol>>)

\* ^\s*(?:qty|quantity)\s*[:\-]?\s*(\d+(?:\.\d+)?)\s*$   IGNORECASE
QTY_NEXT_RX ==
    Cat(<<Bol, Star(S_),
          Alt(<<LitI(<<"q","t","y">>), LitI(<<"q","u","a","n","t","i","t","y">>)>>),
          Star(S_), Opt(Ch({":", "-"})), Star(S_), Grp(1, QtyTok), Star(S_), Eol>>)

\* ^\s*(DELI|PRODUCE|...|BULK|BAKED\s+GOODS)\s*:?\s*$   IGNORECASE
SECTION_RX ==
    Cat(<<Bol, Star(S_),
          Grp(1, Alt(<<LitI(<<"D","E","L","I">>),
                       LitI(<<"P","R","O","D","U","C","E">>),
                       LitI(<<"B","A","K","E","R","Y">>),
                       LitI(<<"M","E","A","T">>),
                       LitI(<<"S","E","A","F","O","O","D">>),
                       LitI(<<"D","A","I","R","Y">>),
                       LitI(<<"F","R","O","Z","E","N">>),
                       LitI(<<"G","R","O","C","E","R","Y">>),
                       LitI(<<"H","O","U","S","E","H","O","L","D">>),
                       LitI(<<"B","E","V","E","R","A","G","E","S">>),
                       LitI(<<"S","N","A","C","K","S">>),
                       LitI(<<"P","A","N","T","R","Y">>),
                       LitI(<<"B","U","L","K">>),
                       Cat(<<LitI(<<"B","A","K","E","D">>), Plus(S_),
                             LitI(<<"G","O","O","D","S">>)>>)>>)),
          Star(S_), Opt(Ch({":"})), Star(S_), Eol>>)

_amt_triplet(raw_amount) ==
    LET AsDict(amt) == Dict(amt.raw, amt.value, amt.currency)
    IN  AsDict(normalize_amount(Str(_fix_currency_ocr(raw_amount))))

\* lines 119-125 and 140-146: the unit amount as raw, value and currency
UnitTriplet(unit) ==
    LET AsDict(unit_amt) == Dict(unit_amt.raw, unit_amt.value, unit_amt.currency)
    IN  AsDict(normalize_amount(Str(_fix_currency_ocr(unit))))

\* f"{x:.2f}" for x >= 0.  On a decimal with more than two places that lies
\* exactly between two results the float's binary expansion decides in Python;
\* here the even one is taken.
FormatFixed2(x) ==
    LET Written(cents) == DigitsOf(cents \div 100) \o <<".">> \o Pad(cents % 100, 2)
        Rounded(r) == Written(r.m * Pow10(2 - r.e))
    IN  Rounded(Round(x, 2))

_match_weighted(line) ==
    LET Item(s, m, unit_price, total) ==
            [qty |-> PyFloat(Group(s, m, 2).s),
             desc |-> Strip(Group(s, m, 1).s),
             unit_price |-> Dict(FormatFixed2(unit_price), unit_price, total.currency),
             line_total |-> total]
        Matched(s, m) ==
            IF ~m.ok THEN None
            ELSE Item(s, m, PyFloat(Group(s, m, 4).s), _amt_triplet(Group(s, m, 6).s))
        OnLine(s) == Matched(s, ReMatch(ROW_RX_WEIGHTED, s))
    IN  OnLine(Strip(line))

_match_qty_unit_total(line) ==
    LET Matched(s, m) ==
            IF ~m.ok THEN None
            ELSE [qty |-> PyFloat(Group(s, m, 1).s),
                  desc |-> Strip(Group(s, m, 2).s),
                  unit_price |-> UnitTriplet(Group(s, m, 3).s),
                  line_total |-> _amt_triplet(Group(s, m, 4).s)]
        OnLine(s) == Matched(s, ReMatch(ROW_RX_QTY_UNIT_TOTAL, s))
    IN  OnLine(Strip(line))

_match_xform(line) ==
    LET Matched(s, m) ==
            IF ~m.ok THEN None
            ELSE [qty |-> PyFloat(Group(s, m, 3).s),
                  desc |-> Strip(Group(s, m, 1).s),
                  unit_price |-> UnitTriplet(Group(s, m, 2).s),
                  line_total |-> _amt_triplet(Group(s, m, 4).s)]
        OnLine(s) == Matched(s, ReMatch(ROW_RX_XFORM, s))
    IN  OnLine(Strip(line))

_match_simple(line) ==
    LET Item(s, m, total) ==
            [qty |-> None,
             desc |-> Strip(Group(s, m, 1).s),
             unit_price |-> Dict(<<>>, None, total.currency),
             line_total |-> total]
        Matched(s, m) ==
            IF ~m.ok THEN None ELSE Item(s, m, _amt_triplet(Group(s, m, 2).s))
        OnLine(s) == Matched(s, ReMatch(ROW_RX_SIMPLE, s))
    IN  OnLine(Strip(line))

\* the first matcher of the chain that returns an item (lines 209-216)
OrElse(item, otherwise) == IF item # None THEN item ELSE otherwise
FirstMatch(line) ==
    OrElse(_match_qty_unit_total(line),
           OrElse(_match_xform(line),
                  OrElse(_match_weighted(line), _match_simple(line))))

\* lines 217-218: the item under the current section, if there is one
NoSection(item, current_section) == item
WithSection(item, current_section) ==
    IF current_section # None THEN item @@ [section |-> current_section] ELSE item

\* the loop of extract_line_items from line i on.  last_idx is 0 for None and
\* counts from 1; current_section is None or a string.
RECURSIVE ItemsFrom(_, _, _, _, _)
ItemsFrom(lines, i, items, last_idx, current_section) ==
    LET Next_(its, li, cs) == ItemsFrom(lines, i + 1, its, li, cs)
        Skip == Next_(items, last_idx, current_section)
        Row(item) ==
            IF item = None THEN Skip
            ELSE Next_(Append(items, WithSection(item, current_section)),
                       Len(items) + 1, current_section)
        Quantity(line, mq) ==
            IF mq.ok /\ last_idx # 0 /\ items # <<>>
            THEN Next_([items EXCEPT ![last_idx].qty = PyFloat(Group(line, mq, 1).s)],
                       last_idx, current_section)
            ELSE Row(FirstMatch(line))
        Section(line, ms) ==
            IF ms.ok THEN Next_(items, last_idx, Str(StrUpper(Group(line, ms, 1).s)))
            ELSE Quantity(line, ReMatch(QTY_NEXT_RX, line))
        OnLine(line) ==
            IF line = <<>> THEN Skip ELSE Section(line, ReMatch(SECTION_RX, line))
    IN  IF i > Len(lines) THEN items ELSE OnLine(Strip(lines[i]))

extract_line_items(lines) == ItemsFrom(lines, 1, <<>>, 0, None)

-----------------------------------------------------------------------------
(* sfa_utils/fingerprint.py and the SQLite store: storage/schema.py,       *)
(* storage/migrations.py, storage/sqlite_store.py.  A database is a record  *)
(* of its tables, its views, the rows of schema_version and the rows of     *)
(* receipts and of documents in rowid order; of a row only norm_hash and    *)
(* raw_text are kept.  A call that can raise returns the database it left   *)
(* and what it returned or raised.                                          *)

\* str.split(): the words between runs of white space
RECURSIVE SplitWords(_)
SplitWords(s) ==
    LET rest == LStrip(s)
        stops == {i \in DOMAIN rest : rest[i] \in WhiteSpace}
        stop == IF stops = {} THEN Len(rest) + 1
                ELSE CHOOSE i \in stops : \A j \in stops : i <= j
    IN  IF rest = <<>> THEN <<>>
        ELSE <<SubSeq(rest, 1, stop - 1)>> \o SplitWords(SubSeq(rest, stop, Len(rest)))

RECURSIVE JoinWith(_, _)
JoinWith(parts, sep) ==
    IF parts = <<>> THEN <<>>
    ELSE IF Len(parts) = 1 THEN parts[1]
    ELSE parts[1] \o sep \o JoinWith(Tail(parts), sep)

normalize_text(t) ==
    LET Clean(line) == StrLower(JoinWith(SplitWords(line), <<" ">>))
        cleaned == [i \in DOMAIN SplitLines(t) |-> Clean(SplitLines(t)[i])]
    IN  JoinWith(SelectSeq(cleaned, LAMBDA line : line # <<>>), <<NL>>)

canonicalize_text(s) == JoinWith(SplitWords(StrLower(s)), <<" ">>)

\* the SHA-1 digest is taken to be one-to-one: the fingerprint of a text is
\* its canonical form
normalized_text_fingerprint(t) == Str(canonicalize_text(t))

SCHEMA_VERSION == 4
ALL_TABLES == <<"schema_version", "documents", "line_items", "transactions",
                "merchants", "categories">>
ALL_VIEWS == {"documents_v", "line_items_v", "transactions_v", "receipts_v"}

NoDatabase ==
    [tables |-> {}, views |-> {}, versions |-> {}, receipts |-> <<>>, documents |-> <<>>]

Returned(database, ret) == [db |-> database, ret |-> ret]

Hashes(rows) == {rows[i].norm_hash : i \in DOMAIN rows} \ {None}

table_exists(database, name) == name \in database.tables

view_exists(database, name) == name \in database.views

get_schema_version(database) ==
    IF table_exists(database, "schema_version") /\ database.versions # {}
    THEN CHOOSE v \in database.versions : \A w \in database.versions : w <= v
    ELSE 0

set_schema_version(database, version) ==
    [database EXCEPT !.versions = @ \cup {version}]

ensure_schema(database) == [database EXCEPT !.tables = @ \cup {"receipts"}]

ExistsInDocuments(database, norm_hash) ==
    table_exists(database, "documents") /\ norm_hash \in Hashes(database.documents)

exists_by_hash(database, norm_hash) ==
    \/ table_exists(database, "documents") /\ norm_hash \in Hashes(database.documents)
    \/ table_exists(database, "receipts") /\ norm_hash \in Hashes(database.receipts)

delete_by_hash(database, norm_hash) ==
    LET Others(rows) == SelectSeq(rows, LAMBDA r : r.norm_hash # norm_hash)
    IN  [database EXCEPT !.documents = Others(@), !.receipts = Others(@)]

\* INSERT into a table whose norm_hash column is UNIQUE; the id of the new
\* row is not kept
RowId == [ty |-> "int"]
InsertInto(database, table, row) ==
    IF ~table_exists(database, table)
    THEN Returned(database, Exc("OperationalError"))
    ELSE IF row.norm_hash \in Hashes(database[table])
    THEN Returned(database, Exc("IntegrityError"))
    ELSE Returned([database EXCEPT ![table] = Append(@, row)], RowId)

insert_receipt(database, row) == InsertInto(database, "receipts", row)

insert_document(database, row) == InsertInto(database, "documents", row)

RECURSIVE MigrateRows(_, _)
MigrateRows(database, i) ==
    IF i > Len(database.receipts) THEN database
    ELSE MigrateRows(insert_document(database, database.receipts[i]).db, i + 1)

migrate_receipts_to_documents(database) == MigrateRows(database, 1)

KeepViews(database) == database

refresh_views(database) == [database EXCEPT !.views = @ \cup ALL_VIEWS]

initialize_fresh_db(database) ==
    set_schema_version(
        [database EXCEPT !.tables = @ \cup Range(ALL_TABLES), !.views = @ \cup ALL_VIEWS],
        SCHEMA_VERSION)

migrate_to_v4(database) ==
    LET created == [database EXCEPT !.tables = @ \cup Range(ALL_TABLES)]
        Filled(d) ==
            IF table_exists(database, "receipts") /\ ~table_exists(database, "documents")
            THEN migrate_receipts_to_documents(d)
            ELSE d
    IN  set_schema_version(refresh_views(Filled(created)), SCHEMA_VERSION)

ensure_current_schema(database) ==
    IF get_schema_version(database) = SCHEMA_VERSION
    THEN IF \A v \in {"documents_v", "line_items_v", "transactions_v"} : view_exists(database, v)
         THEN Returned(database, "current")
         ELSE Returned(refresh_views(database), "views_refreshed")
    ELSE IF get_schema_version(database) = 0 /\ ~table_exists(database, "receipts")
    THEN Returned(initialize_fresh_db(database), "initialized")
    ELSE Returned(migrate_to_v4(database), "migrated")

\* check_integrity: integrity is what PRAGMA integrity_check answers.  The
\* status is assigned in this order: by the integrity check, by each missing
\* table, by each missing view.
check_integrity(database, integrity) ==
    LET expected_tables == {"documents", "line_items", "transactions", "merchants", "categories"}
        expected_views == {"documents_v", "line_items_v", "transactions_v"}
        missing_tables == {t \in expected_tables : ~table_exists(database, t)}
        missing_views == {v \in expected_views : ~view_exists(database, v)}
        Checked == IF integrity # "ok" THEN "error" ELSE "ok"
        Tables(status) == IF missing_tables # {} THEN "warning" ELSE status
        Views(status) == IF missing_views # {} THEN "warning" ELSE status
    IN  [status |-> Views(Tables(Checked)),
         version |-> get_schema_version(database),
         integrity_check |-> integrity,
         missing_tables |-> missing_tables,
         missing_views |-> missing_views]

\* src/finproc.py, db_cmd with the options --init, --check and --compat-views:
\* the database it leaves, the report of the check and the exit code
NotChecked == [status |-> "none"]
db_cmd(database, do_init, do_check, do_views, integrity) ==
    LET ExitCode(report) ==
            IF report.status = "error" THEN 3
            ELSE IF report.status = "warning" THEN 2 ELSE 0
        Views(d, report) ==
            Returned(IF do_views THEN refresh_views(d) ELSE d,
                     [check |-> report, exit_code |-> ExitCode(report)])
        Check(d) == Views(d, IF do_check THEN check_integrity(d, integrity) ELSE NotChecked)
    IN  IF ~(do_init \/ do_check \/ do_views)
        THEN Returned(database, [check |-> NotChecked, exit_code |-> 1])
        ELSE Check(IF do_init THEN ensure_current_schema(database).db ELSE database)

\* src/finproc.py and src/cli/finproc.py.  The receipts table the program
\* creates has every column, so migrate_add_sanity_flags and
\* migrate_add_norm_hash change nothing.
_ensure_db(database) ==
    LET Legacy(result) ==
            IF result.ret = "current" THEN result.db ELSE ensure_schema(result.db)
    IN  Legacy(ensure_current_schema(database))

cli_ensure_db(database) == ensure_schema(database)

RowOf(raw_text) ==
    [norm_hash |-> normalized_text_fingerprint(normalize_text(raw_text)),
     raw_text |-> Str(raw_text)]

\* what _ingest_one returns: the status, or "error" for any exception
Status(stored, status_prefix) ==
    Returned(stored.db, IF stored.ret = RowId THEN status_prefix ELSE "error")

_ingest_one(database, raw_text, force) ==
    LET row == RowOf(raw_text)
        Insert(d, status_prefix) ==
            Status(IF table_exists(d, "documents") THEN insert_document(d, row)
                   ELSE insert_receipt(d, row),
                   status_prefix)
    IN  IF exists_by_hash(database, row.norm_hash)
        THEN IF ~force THEN Returned(database, "skip")
             ELSE Insert(delete_by_hash(database, row.norm_hash), "force")
        ELSE Insert(database, "ok")

cli_ingest_one(database, raw_text, force) ==
    LET row == RowOf(raw_text)
    IN  IF exists_by_hash(database, row.norm_hash)
        THEN IF ~force THEN Returned(database, "skip")
             ELSE Status(insert_receipt(database, row), "force")
        ELSE Status(insert_receipt(database, row), "ok")

-----------------------------------------------------------------------------
(* categorizer/rules.py.  A rule of the config is a record of its keys, a    *)
(* key that is absent being None (a list that is absent, the empty list).    *)
(* A document is a record of vendor, total, the descriptions of its line     *)
(* items, raw_ocr_text and doc_date.                                         *)

PyInt(n) == [ty |-> "int", n |-> n]

\* Rule.check_vendor: re.escape makes the pattern the upper-cased string itself
check_vendor(rule, document) ==
    /\ rule.vendor_patterns # <<>>
    /\ \E k \in DOMAIN rule.vendor_patterns :
          Contains(StrUpper(OrEmpty(document.vendor)), rule.vendor_patterns[k])

check_keywords(rule, document) ==
    LET described == StrLower(JoinWith(document.line_items, <<" ">>))
                        \o <<" ">> \o StrLower(OrEmpty(document.vendor))
        searched == IF OrEmpty(document.raw_ocr_text) # <<>>
                    THEN described \o <<" ">> \o StrLower(document.raw_ocr_text.s)
                    ELSE described
    IN  /\ rule.keywords # <<>>
        /\ \E k \in DOMAIN rule.keywords : Contains(searched, StrLower(rule.keywords[k]))

\* Rule.check_amount: doc.total or 0 against amount_min and amount_max
check_amount(rule, document) ==
    LET Within(total) ==
            /\ ~(rule.amount_min # None /\ FloatLess(total, rule.amount_min))
            /\ ~(rule.amount_max # None /\ FloatLess(rule.amount_max, total))
    IN  \/ rule.amount_min = None /\ rule.amount_max = None
        \/ Within(IF document.total = None \/ document.total.m = 0 THEN Float(0, 0)
                  ELSE document.total)

\* Rule.check_date, lines 77-78: a document without a date passes
check_date(rule, document) == document.doc_date = None

applies(rule, document) ==
    /\ (rule.vendor_patterns # <<>> \/ rule.keywords # <<>>)
          => (check_vendor(rule, document) \/ check_keywords(rule, document))
    /\ check_amount(rule, document)
    /\ check_date(rule, document)

Categorization(primary_category, secondary_category, merchant, confidence, tags) ==
    [primary_category |-> primary_category, secondary_category |-> secondary_category,
     merchant |-> merchant, confidence |-> confidence, tags |-> tags]

to_categorization(rule, document) ==
    [cat |-> Categorization(rule.primary_category, rule.secondary_category,
                            document.vendor, rule.confidence, rule.tags),
     name |-> rule.name]

parse_rule(r) ==
    LET Between(bound, k) ==
            IF r.if_amount_between # None /\ Len(r.if_amount_between.xs) >= 2
            THEN r.if_amount_between.xs[k] ELSE bound
    IN  [name |-> IF r.name = None THEN Str(<<"u","n","n","a","m","e","d">>) ELSE r.name,
         priority |-> IF r.priority = None THEN 0 ELSE r.priority.n,
         vendor_patterns |-> [k \in DOMAIN r.if_vendor_matches |-> StrUpper(r.if_vendor_matches[k])],
         keywords |-> r.if_lineitem_contains,
         amount_min |-> Between(r.if_amount_gt, 1),
         amount_max |-> Between(r.if_amount_lt, 2),
         primary_category |-> r.assign.primary_category,
         secondary_category |-> r.assign.secondary_category,
         confidence |-> IF r.assign.confidence = None THEN Float(5, 1) ELSE r.assign.confidence,
         tags |-> r.assign.tags]

\* the rules as the config lists them
ParsedRules(cfg) == [k \in DOMAIN cfg.rules |-> parse_rule(cfg.rules[k])]

\* rules.sort(key=lambda r: r.priority, reverse=True): the sort is stable, so
\* a rule goes behind the rules of its priority that are listed before it
RECURSIVE SortedRules(_)
SortedRules(rules) ==
    LET Insert(sorted, r) ==
            LET k == Cardinality({i \in DOMAIN sorted : sorted[i].priority >= r.priority})
            IN  SubSeq(sorted, 1, k) \o <<r>> \o SubSeq(sorted, k + 1, Len(sorted))
    IN  IF rules = <<>> THEN <<>>
        ELSE Insert(SortedRules(SubSeq(rules, 1, Len(rules) - 1)), rules[Len(rules)])

\* the rules in the order of the config, unsorted
ListedRules(cfg) == ParsedRules(cfg)

compile_rules(cfg) == SortedRules(ParsedRules(cfg))

apply_rules_with_name(document, cfg) ==
    LET Default(d) ==
            [cat |-> Categorization(
                        IF d.primary_category = None
                        THEN Str(<<"U","n","c","a","t","e","g","o","r","i","z","e","d">>)
                        ELSE d.primary_category,
                        d.secondary_category, document.vendor,
                        IF d.confidence = None THEN Float(1, 1) ELSE d.confidence,
                        d.tags),
             name |-> None]
        FirstOf(rules) ==
            LET applicable == {k \in DOMAIN rules : applies(rules[k], document)}
            IN  IF applicable = {} THEN Default(cfg.defaults)
                ELSE to_categorization(
                        rules[CHOOSE k \in applicable : \A j \in applicable : k <= j], document)
    IN  FirstOf(compile_rules(cfg))

-----------------------------------------------------------------------------
(* src/finproc.py, categorize_cmd, on a database of the current schema       *)
(* (ensure_current_schema finds it current): ledger.documents are the rows   *)
(* of documents in the order of their ids, ledger.transactions the rows of   *)
(* transactions in rowid order, of which the document, the category and the *)
(* rule name are kept.                                                       *)

\* adapters/legacy.py, LegacyAdapter.build on a raw text that is one name in
\* capitals: the name is the vendor and the only line item
BuildDocument(raw_text) ==
    [vendor |-> raw_text, total |-> None, line_items |-> <<raw_text.s>>,
     raw_ocr_text |-> raw_text, doc_date |-> None]

\* ORDER BY date DESC, id DESC on documents without a date
Descending(rows) == [k \in 1..Len(rows) |-> rows[Len(rows) - k + 1]]

list_documents(led) == Descending(led.documents)

get_uncategorized_documents(led) ==
    LET Bare(row) == \A k \in DOMAIN led.transactions : led.transactions[k].document_id # row.id
    IN  Descending(SelectSeq(led.documents, Bare))

\* no row deleted
KeepTransactions(led, document_id) == led

delete_transactions_for_document(led, document_id) ==
    [led EXCEPT !.transactions = SelectSeq(@, LAMBDA t : t.document_id # document_id)]

insert_transaction(led, document_id, primary_category, rule_name) ==
    [led EXCEPT !.transactions =
        Append(@, [document_id |-> document_id, primary_category |-> primary_category,
                   rule_name |-> rule_name])]

\* the loop of categorize_cmd over docs from place k on; a document row
\* without raw_text makes LegacyAdapter.build raise, which counts as an error
RECURSIVE CategorizeFrom(_, _, _, _, _, _)
CategorizeFrom(led, docs, k, cfg, dry_run, stats) ==
    LET Counted(key) == [stats EXCEPT ![key] = @ + 1]
        Stored(row, found) ==
            insert_transaction(delete_transactions_for_document(led, row.id), row.id,
                               found.cat.primary_category, found.name)
        Categorized(row, found) ==
            IF dry_run THEN CategorizeFrom(led, docs, k + 1, cfg, dry_run, stats)
            ELSE CategorizeFrom(Stored(row, found), docs, k + 1, cfg, dry_run,
                                Counted("categorized"))
        Row(row) ==
            IF row.raw_text = None
            THEN CategorizeFrom(led, docs, k + 1, cfg, dry_run, Counted("errors"))
            ELSE Categorized(row, apply_rules_with_name(BuildDocument(row.raw_text), cfg))
    IN  IF k > Len(docs) THEN [ledger |-> led, ret |-> stats]
        ELSE Row(docs[k])

categorize_cmd(led, cfg, refresh, dry_run) ==
    CategorizeFrom(led, IF refresh THEN list_documents(led)
                        ELSE get_uncategorized_documents(led),
                   1, cfg, dry_run, [categorized |-> 0, errors |-> 0])

-----------------------------------------------------------------------------
(* The inputs.  Each specification draws its inputs from one family; given  *)
(* records how the input was put together.                                  *)

MaxIntDigits == 4     \* digits before the decimal point of an amount token
MaxRawLen == 4        \* length of an arbitrary argument of normalize_amount
MaxNeighbours == 2    \* lines around a "You saved" line
MaxLines == 3         \* lines of a general text

SeqsUpTo(S, n) == UNION {[1..k -> S] : k \in 0..n}

RECURSIVE JoinLines(_)
JoinLines(ls) ==
    IF ls = <<>> THEN <<>>
    ELSE IF Len(ls) = 1 THEN ls[1]
    ELSE ls[1] \o <<NL>> \o JoinLines(Tail(ls))

\* 1234 as 1,234
Grouped(ds) ==
    IF Len(ds) > 3
    THEN SubSeq(ds, 1, Len(ds) - 3) \o <<",">> \o SubSeq(ds, Len(ds) - 2, Len(ds))
    ELSE ds

(* amount tokens: marker, digits, a dot and two decimals; signed or not *)

TokenDigits == {"0", "1", "5"}
TokenCents == { <<"0","0">>, <<"5","6">> }
TokenMarkers == { <<>>,
                  <<"$">>,
                  <<"$"," ">>,
                  <<"U","S","D"," ">>,
                  <<EURO>>,
                  <<RUPEE>> }
TokenInts == {ds \in SeqsUpTo(TokenDigits, MaxIntDigits) :
                  Len(ds) >= 1 /\ (Len(ds) = 1 \/ ds[1] # "0")}

TokenInputs ==
    {[kind |-> "token", marker |-> m, int |-> i, cents |-> c, grouped |-> g,
      sign |-> sg, sign_first |-> sf] :
        m \in TokenMarkers, i \in TokenInts, c \in TokenCents, g \in BOOLEAN,
        sg \in {"none", "minus", "paren"}, sf \in BOOLEAN}

\* one record for each token text
TokenCanonical(g) ==
    /\ g.grouped => Len(g.int) > 3
    /\ g.sign = "none" => g.sign_first
    /\ g.marker = <<>> => g.sign_first

TokenNumber(g) == (IF g.grouped THEN Grouped(g.int) ELSE g.int) \o <<".">> \o g.cents

TokenText(g) ==
    LET num == TokenNumber(g)
    IN  CASE g.sign = "none" -> g.marker \o num
          [] g.sign = "minus" /\ g.sign_first -> <<"-">> \o g.marker \o num
          [] g.sign = "minus" -> g.marker \o <<"-">> \o num
          [] g.sign = "paren" /\ g.sign_first -> <<"(">> \o g.marker \o num \o <<")">>
          [] OTHER -> g.marker \o <<"(">> \o num \o <<")">>

\* the number the token writes, sign apart
TokenValue(g) == Norm(ParseNat(g.int \o g.cents), 2)

RawChars == {"S", "1", " ", "x", "."}
RawInputs == {[kind |-> "raw", s |-> s] : s \in SeqsUpTo(RawChars, MaxRawLen)}

\* amount tokens whose currency sign was read as S or 5, with or without a
\* blank after it
OcrPrefixes == {"S", "5"}
OcrInputs ==
    {g \in [kind : {"ocr"}, prefix : OcrPrefixes, blank : BOOLEAN, int : TokenInts,
            cents : TokenCents, grouped : BOOLEAN] : g.grouped => Len(g.int) > 3}
OcrText(g) ==
    <<g.prefix>> \o (IF g.blank THEN <<" ">> ELSE <<>>) \o TokenNumber(g)

(* invoice texts: Subtotal, Tax and Total lines, amounts in cents *)

AmountPairs == { <<9000, 1000>>, <<100000, 23456>>, <<120000, 9600>>,
                 <<1250, 100>>, <<30000, 2450>> }
InvoiceInputs ==
    {[kind |-> "invoice", sub |-> p[1], tax |-> p[2], reads |-> r, dollar |-> d,
      commas |-> c, head |-> h, elsewhere |-> e] :
        p \in AmountPairs, r \in {"sum", "low", "high"}, d \in BOOLEAN, c \in BOOLEAN,
        h \in BOOLEAN, e \in {"none", "before", "after"}}

FmtCents(n, dollar, commas) ==
    LET whole == DigitsOf(n \div 100)
    IN  (IF dollar THEN <<"$">> ELSE <<>>)
        \o (IF commas THEN Grouped(whole) ELSE whole)
        \o <<".", DigitSeq[((n % 100) \div 10) + 1], DigitSeq[(n % 10) + 1]>>

InvoiceSum(g) == g.sub + g.tax

InvoiceReading(g) ==
    CASE g.reads = "sum" -> InvoiceSum(g)
      [] g.reads = "low" -> 1700                     \* a misread total, 17.00
      [] OTHER -> InvoiceSum(g) + 7000           \* a misread total, 70.00 over

InvoiceText(g) ==
    LET amt(n) == FmtCents(n, g.dollar, g.commas)
        bare == <<amt(InvoiceSum(g))>>
    IN  JoinLines((IF g.head THEN <<<<"I","N","V","O","I","C","E">>>> ELSE <<>>)
                  \o (IF g.elsewhere = "before" THEN bare ELSE <<>>)
                  \o <<<<"S","u","b","t","o","t","a","l",":"," ">> \o amt(g.sub),
                       <<"T","a","x",":"," ">> \o amt(g.tax),
                       <<"T","o","t","a","l",":"," ">> \o amt(InvoiceReading(g))>>
                  \o (IF g.elsewhere = "after" THEN bare ELSE <<>>))

(* "You saved" texts: one savings line, digit-free lines around it *)

SavedLines == { <<"Y","o","u"," ","s","a","v","e","d"," ","$","5",".","0","0">>,
                <<"Y","O","U"," ","S","A","V","E","D"," ","1","2",".","3","4">>,
                <<"y","o","u"," ","s","a","v","e","d",":"," ","$","1",",","2","3","4",".","5","6">>,
                <<" "," ","Y","o","u"," ","s","a","v","e","d"," ","$","5",".","0","0"," ","t","o","d","a","y">> }
LabelLines == { <<>>,
                <<"T","o","t","a","l">>,
                <<"T","O","T","A","L",":">>,
                <<"G","r","a","n","d"," ","T","o","t","a","l">>,
                <<"A","m","o","u","n","t"," ","D","u","e">>,
                <<"N","e","t"," ","P","a","y">>,
                <<"T","h","a","n","k","s">> }

SavedInputs ==
    UNION {{[kind |-> "saved", saved |-> s, before |-> b, after |-> a] :
                s \in SavedLines, b \in [1..kl[1] -> LabelLines],
                a \in [1..kl[2] -> LabelLines]} :
           kl \in {x \in (0..MaxNeighbours) \X (0..MaxNeighbours) :
                       x[1] + x[2] <= MaxNeighbours}}

SavedText(g) == JoinLines(g.before \o <<g.saved>> \o g.after)

(* paystub texts: a Pay Period line and a Net Pay line *)

PayInts == { <<"5">>,
             <<"1","2">>,
             <<"5","1">>,
             <<"1","0","0">>,
             <<"1","2","3","4">>,
             <<"1",",","2","3","4">> }
PayCents == { <<"0","0">>, <<"5","6">> }
PeriodLines == { <<"P","a","y"," ","P","e","r","i","o","d",":"," ","0","1","/","0","1","/","2","0","2","4"," ","t","o"," ","0","1","/","1","5","/","2","0","2","4">>,
                 <<"P","a","y"," ","P","e","r","i","o","d">> }
HeadLines == <<<<"E","m","p","l","o","y","e","r"," ","X","Y","Z">>, <<"E","m","p","l","o","y","e","e",":"," ","J","a","n","e"," ","D","o","e">>>>

PaystubInputs ==
    {[kind |-> "paystub", int |-> i, cents |-> c, dollar |-> d, period |-> p,
      head |-> h, period_first |-> pf] :
        i \in PayInts, c \in PayCents, d \in BOOLEAN, p \in PeriodLines,
        h \in BOOLEAN, pf \in BOOLEAN}

PayToken(g) == (IF g.dollar THEN <<"$">> ELSE <<>>) \o g.int \o <<".">> \o g.cents

PayValue(g) == Norm(ParseNat(Replace(g.int, <<",">>, <<>>) \o g.cents), 2)

PaystubText(g) ==
    LET net == <<<<"N","e","t"," ","P","a","y",":"," ">> \o PayToken(g)>>
    IN  JoinLines((IF g.head THEN HeadLines ELSE <<>>)
                  \o (IF g.period_first THEN <<g.period>> \o net ELSE net \o <<g.period>>))

(* general texts: up to MaxLines lines of a pool *)

LinePool == { <<"h","e","l","l","o">>,
              <<"T","o","t","a","l"," ","1","3",",","6">>,
              <<"I","n","v","o","i","c","e"," ","4","2">>,
              <<"E","m","p","l","o","y","e","e"," ","h","o","u","r","s">>,
              <<"T","o","t","a","l",":"," ","$","1","2",".","0","0">>,
              <<"N","e","t"," ","P","a","y",":"," ","$","5",".","0","0">>,
              <<"S","u","b","t","o","t","a","l",":"," ","3",".","0","0">>,
              <<"W","i","d","g","e","t"," ","2"," ","x"," ","1",".","5","0">> }

GeneralInputs == {[kind |-> "lines", lines |-> ls] : ls \in SeqsUpTo(LinePool, MaxLines)}

\* date strings: year first, month name first, and day and month in numbers
DateNums == { <<"0">>, <<"1">>, <<"0","2">>, <<"5">>, <<"1","2">>, <<"1","3">>,
              <<"2","9">>, <<"3","0">>, <<"3","1">> }
DateYears == { <<"2","0","2","1">>, <<"2","0","2","4">>, <<"0","0","0","0">>,
               <<"2","1">>, <<"7","0">> }
MonthNames ==
    << <<"J","a","n","u","a","r","y">>,
       <<"F","e","b","r","u","a","r","y">>,
       <<"M","a","r","c","h">>,
       <<"A","p","r","i","l">>,
       <<"M","a","y">>,
       <<"J","u","n","e">>,
       <<"J","u","l","y">>,
       <<"A","u","g","u","s","t">>,
       <<"S","e","p","t","e","m","b","e","r">>,
       <<"O","c","t","o","b","e","r">>,
       <<"N","o","v","e","m","b","e","r">>,
       <<"D","e","c","e","m","b","e","r">> >>
YearFirstInputs ==
    [kind : {"ymd"}, year : {y \in DateYears : Len(y) = 4}, month : DateNums,
     day : DateNums, sep1 : {"-", "/", "."}, sep2 : {"-", "/", "."}]
NamedInputs ==
    [kind : {"named"}, month : 1..12, style : {"full", "abbr"},
     case : {"title", "upper", "lower"}, day : DateNums, comma : BOOLEAN,
     year : DateYears]
NumbersInputs ==
    [kind : {"mdy"}, a : DateNums, b : DateNums, year : DateYears,
     sep : {"/", "-"}, padded : BOOLEAN]
MonthName(g) ==
    LET Cased(n) == CASE g.case = "upper" -> StrUpper(n)
                      [] g.case = "lower" -> StrLower(n)
                      [] OTHER -> n
    IN  Cased(IF g.style = "abbr" THEN SubSeq(MonthNames[g.month], 1, 3)
              ELSE MonthNames[g.month])
DateText(g) ==
    CASE g.kind = "ymd" -> g.year \o <<g.sep1>> \o g.month \o <<g.sep2>> \o g.day
      [] g.kind = "named" ->
            MonthName(g) \o <<" ">> \o g.day
                \o (IF g.comma THEN <<",">> ELSE <<>>) \o <<" ">> \o g.year
      [] OTHER ->
            (IF g.padded THEN <<" ">> ELSE <<>>)
                \o g.a \o <<g.sep>> \o g.b \o <<g.sep>> \o g.year
                \o (IF g.padded THEN <<" ", NL>> ELSE <<>>)

\* texts for the scorer: lines that are a cue word of one of the two tables,
\* or no cue at all, in lower case or in capitals
CuePool == { <<"i","n","v","o","i","c","e">>,
            <<"s","u","b","t","o","t","a","l">>,
            <<"t","a","x">>,
            <<"a","m","o","u","n","t"," ","d","u","e">>,
            <<"p","a","y"," ","p","e","r","i","o","d">>,
            <<"n","e","t"," ","p","a","y">>,
            <<"y","t","d">>,
            <<"h","o","u","r","s">>,
            <<"e","m","p","l","o","y","e","e">>,
            <<"h","e","l","l","o">> }
CueInputs ==
    {[kind |-> "cues", lines |-> ls, capitals |-> c] :
        ls \in SeqsUpTo(CuePool, MaxLines), c \in BOOLEAN}
CueText(g) == IF g.capitals THEN StrUpper(JoinLines(g.lines)) ELSE JoinLines(g.lines)

\* lines of a receipt: section headers, quantity lines, one row of each shape
\* and lines that are none of these; name is the header's section or the row's
\* description, qty the quantity the line states
MaxItemLines == 3     \* lines of a receipt
RowPool ==
    { [class |-> "header", text |-> <<"P","R","O","D","U","C","E">>, name |-> <<"P","R","O","D","U","C","E">>, qty |-> None],
      [class |-> "header", text |-> <<"d","e","l","i",":">>, name |-> <<"D","E","L","I">>, qty |-> None],
      [class |-> "qty", text |-> <<"Q","u","a","n","t","i","t","y",":"," ","3">>, name |-> <<>>, qty |-> Float(3, 0)],
      [class |-> "qty", text |-> <<"Q","t","y",":"," ","2",".","5","0">>, name |-> <<>>, qty |-> Float(25, 1)],
      [class |-> "row", text |-> <<"B","a","n","a","n","a","s"," ","2",".","0","0"," ","l","b"," ","@"," ","0",".","5","0","/","l","b"," ","1",".","0","0">>,
       name |-> <<"B","a","n","a","n","a","s">>, qty |-> Float(2, 0)],
      [class |-> "row", text |-> <<"2"," ","W","i","d","g","e","t"," ","A"," ","1","9",".","9","9"," ","3","9",".","9","8">>,
       name |-> <<"W","i","d","g","e","t"," ","A">>, qty |-> Float(2, 0)],
      [class |-> "row", text |-> <<"P","e","n"," ","$","1",".","0","0"," ","x"," ","2"," ","$","2",".","0","0">>,
       name |-> <<"P","e","n">>, qty |-> Float(2, 0)],
      [class |-> "row", text |-> <<"M","i","l","k"," ","3",".","4","9">>, name |-> <<"M","i","l","k">>, qty |-> None],
      [class |-> "noise", text |-> <<>>, name |-> <<>>, qty |-> None],
      [class |-> "noise", text |-> <<"T","h","a","n","k"," ","y","o","u">>, name |-> <<>>, qty |-> None] }
RowInputs == {[kind |-> "rows", lines |-> ls] : ls \in SeqsUpTo(RowPool, MaxItemLines)}
LinesOf(g) == [i \in DOMAIN g.lines |-> g.lines[i].text]

\* rows of each shape, and two rows that have both the weighted shape and
\* the quantity, unit amount and total shape
MaxShapeLines == 2    \* lines of a receipt of such rows
ShapePool ==
    { [class |-> "row", shapes |-> "both", text |-> <<"2"," ","F","i","g","s"," ","1"," ","l","b"," ","@"," ","2",".","0","0","/","l","b"," ","2",".","0","0"," ","4",".","0","0">>],
      [class |-> "row", shapes |-> "both", text |-> <<"3"," ","K","i","w","i"," ","2"," ","k","g"," ","@"," ","1",".","5","0","/","k","g"," ","1",".","5","0"," ","3",".","0","0">>],
      [class |-> "row", shapes |-> "weighted", text |-> <<"B","a","n","a","n","a","s"," ","2",".","0","0"," ","l","b"," ","@"," ","0",".","5","0","/","l","b"," ","1",".","0","0">>],
      [class |-> "row", shapes |-> "qty_unit_total", text |-> <<"2"," ","W","i","d","g","e","t"," ","A"," ","1","9",".","9","9"," ","3","9",".","9","8">>],
      [class |-> "row", shapes |-> "xform", text |-> <<"P","e","n"," ","$","1",".","0","0"," ","x"," ","2"," ","$","2",".","0","0">>],
      [class |-> "row", shapes |-> "simple", text |-> <<"M","i","l","k"," ","3",".","4","9">>],
      [class |-> "row", shapes |-> "none", text |-> <<"T","h","a","n","k"," ","y","o","u">>] }
ShapeInputs == {[kind |-> "shapes", lines |-> ls] : ls \in SeqsUpTo(ShapePool, MaxShapeLines)}

\* lines of a receipt around its total: a label with bare digits, an amount
\* without a label, two labelled totals, an item count, an amount alone on
\* its line and a line of no amount; value is the amount the line states
MaxTotalLines == 3    \* lines of such a receipt
TotalPool ==
    { [class |-> "implied", text |-> <<"T","o","t","a","l"," ","1","7","9","4">>, value |-> Float(1794, 2)],
      [class |-> "money", text |-> <<"M","i","l","k"," ","9","9",".","9","9">>, value |-> Float(9999, 2)],
      [class |-> "labelled", text |-> <<"T","o","t","a","l",":"," ","1","2",".","0","0">>, value |-> Float(12, 0)],
      [class |-> "labelled", text |-> <<"T","o","t","a","l",":"," ","1","5",".","0","0">>, value |-> Float(15, 0)],
      [class |-> "items", text |-> <<"T","o","t","a","l"," ","i","t","e","m","s"," ","5">>, value |-> None],
      [class |-> "numeric", text |-> <<"7",".","0","0">>, value |-> Float(7, 0)],
      [class |-> "other", text |-> <<"h","e","l","l","o">>, value |-> None] }
TotalInputs == {[kind |-> "totals", lines |-> ls] : ls \in SeqsUpTo(TotalPool, MaxTotalLines)}

\* lines around a savings line
MaxContextLines == 4  \* lines of such a receipt
ContextPool ==
    { [class |-> "context", text |-> <<"Y","o","u"," ","s","a","v","e","d"," ","2",".","0","0">>, value |-> Float(2, 0)],
      [class |-> "other", text |-> <<"h","e","l","l","o">>, value |-> None],
      [class |-> "numeric", text |-> <<"7",".","0","0">>, value |-> Float(7, 0)],
      [class |-> "money", text |-> <<"M","i","l","k"," ","3",".","4","9">>, value |-> Float(349, 2)] }
ContextInputs ==
    {[kind |-> "context", lines |-> ls] : ls \in SeqsUpTo(ContextPool, MaxContextLines)}

\* rule configs: up to MaxRules rules, each matching the vendor COFFEE, with
\* a priority or none and an amount condition or none; the rule at place k
\* has the k-th name and category.  Documents: a vendor and a total.
MaxRules == 3         \* rules of a config
Threshold == Float(100, 0)
RulePriorities == {None, PyInt(10), PyInt(50)}
RuleNames == << Str(<<"f","i","r","s","t">>), Str(<<"s","e","c","o","n","d">>), Str(<<"t","h","i","r","d">>), Str(<<"f","o","u","r","t","h">>) >>
RuleCategories == << Str(<<"O","n","e">>), Str(<<"T","w","o">>), Str(<<"T","h","r","e","e">>), Str(<<"F","o","u","r">>) >>
NoAssign == [primary_category |-> None, secondary_category |-> None, confidence |-> None, tags |-> <<>>]
RuleBodies ==
    {[priority |-> p, if_amount_gt |-> gt, if_amount_lt |-> lt] :
        p \in RulePriorities,
        gt \in {None, Threshold}, lt \in {None, Threshold}} \ {[priority |-> p, if_amount_gt |-> Threshold, if_amount_lt |-> Threshold] : p \in RulePriorities}
RuleAt(body, k) ==
    [name |-> RuleNames[k], priority |-> body.priority,
     if_vendor_matches |-> << <<"C","O","F","F","E","E">> >>, if_lineitem_contains |-> <<>>,
     if_amount_gt |-> body.if_amount_gt, if_amount_lt |-> body.if_amount_lt,
     if_amount_between |-> None,
     assign |-> [NoAssign EXCEPT !.primary_category = RuleCategories[k]]]
RuleConfigs ==
    {[rules |-> [k \in DOMAIN bodies |-> RuleAt(bodies[k], k)], defaults |-> NoAssign] :
        bodies \in SeqsUpTo(RuleBodies, MaxRules)}
RuleDocuments ==
    {[vendor |-> v, total |-> t, line_items |-> <<>>, raw_ocr_text |-> None, doc_date |-> None] :
        v \in {Str(<<"C","o","f","f","e","e"," ","S","h","o","p">>), Str(<<"S","t","o","r","e">>)},
        t \in {Float(50, 0), Threshold, Float(150, 0)}}
RuleInputs == {[kind |-> "rules", cfg |-> c, document |-> d] : c \in RuleConfigs, d \in RuleDocuments}

\* what PRAGMA integrity_check answers: ok, or the damage it found
IntegrityAnswers == {"ok", "NULL value in receipts.raw_text"}

\* databases to categorize: up to MaxDocuments documents, with a raw text or
\* without, some of them with a transaction already; and the rules, those of
\* CategorizerService without a rules file or one rule for the vendor COFFEE
MaxDocuments == 2     \* documents of the database
RawTexts == {None, Str(<<"C","O","F","F","E","E"," ","S","H","O","P">>), Str(<<"S","T","O","R","E">>)}
OldTransaction(id) ==
    [document_id |-> id, primary_category |-> Str(<<"O","l","d">>), rule_name |-> None]
Ledgers ==
    {[documents |-> [k \in DOMAIN texts |-> [id |-> k, raw_text |-> texts[k]]],
      transactions |->
          LET Chosen == SelectSeq([k \in DOMAIN texts |-> k], LAMBDA k : k \in ids)
          IN  [k \in DOMAIN Chosen |-> OldTransaction(Chosen[k])]] :
        texts \in SeqsUpTo(RawTexts, MaxDocuments), ids \in SUBSET (1..MaxDocuments)}
CategorizeConfigs ==
    { [rules |-> <<>>,
       defaults |-> [NoAssign EXCEPT !.primary_category = Str(<<"U","n","c","a","t","e","g","o","r","i","z","e","d">>),
                                     !.confidence = Float(1, 1)]],
      [rules |-> <<RuleAt([priority |-> None, if_amount_gt |-> None, if_amount_lt |-> None], 1)>>,
       defaults |-> NoAssign] }

\* files to ingest: three texts with one fingerprint, and a fourth
FilePool == { <<"M","i","l","k"," ","3">>,
             <<"M","I","L","K"," "," ","3">>,
             <<"m","i","l","k",NL,"3">>,
             <<"E","g","g","s">> }

\* databases to migrate: a schema is fresh, or cut short after any of the
\* tables migrate_to_v4 creates one by one, or complete; with or without a
\* receipts table of up to MaxReceipts rows, one of them without a hash;
\* the documents of a complete schema are none or the copies of the
\* receipts; only a complete schema has a version row and views
MaxReceipts == 2      \* rows of a legacy receipts table
ReceiptPool ==
    { RowOf(<<"M","i","l","k"," ","3">>),
      RowOf(<<"E","g","g","s">>),
      [norm_hash |-> None, raw_text |-> Str(<<"T","e","a">>)] }
ReceiptRows ==
    {rows \in SeqsUpTo(ReceiptPool, MaxReceipts) :
        \A i, j \in DOMAIN rows : i # j /\ rows[i].norm_hash = rows[j].norm_hash
                                      => rows[i].norm_hash = None}
NewTables(k) == {ALL_TABLES[i] : i \in 1..k}
LegacyDatabases ==
    {[NoDatabase EXCEPT !.tables = {"receipts"}, !.receipts = rows] : rows \in ReceiptRows}
StartingDatabases ==
    LET complete == Len(ALL_TABLES)
        Cut(legacy) == {[legacy EXCEPT !.tables = @ \cup NewTables(k)] : k \in 0..(complete - 1)}
        Complete(legacy) ==
            {[legacy EXCEPT !.tables = @ \cup NewTables(complete), !.documents = docs,
                            !.views = views, !.versions = versions] :
                docs \in {<<>>, legacy.receipts}, views \in SUBSET ALL_VIEWS,
                versions \in {{}, {SCHEMA_VERSION}}}
    IN  UNION {Cut(legacy) \cup Complete(legacy) : legacy \in LegacyDatabases \cup {NoDatabase}}

-----------------------------------------------------------------------------
(* The operations.  A behaviour of the extraction engine is one call: of    *)
(* normalize_amount on raw, or of extract or extract_from_text on text.  A  *)
(* behaviour of the store is a sequence of commands on one database file.   *)

NormalizeAmount ==
    /\ amount = Pending
    /\ amount' = normalize_amount(raw)
    /\ UNCHANGED <<given, raw, text, doc, out, dateVars, laterVars>>

Extract ==
    /\ doc = Pending /\ out = Pending
    /\ doc' = extract(text)
    /\ UNCHANGED <<given, raw, amount, text, out, dateVars, laterVars>>

ExtractFromText ==
    /\ doc = Pending /\ out = Pending
    /\ out' = extract_from_text(text)
    /\ UNCHANGED <<given, raw, amount, text, doc, dateVars, laterVars>>

ToIsoDate ==
    /\ iso = Pending
    /\ iso' = to_iso_date(raw)
    /\ UNCHANGED <<given, raw, amount, text, doc, out, iso_again, laterVars>>

\* the function applied to what it returned
ToIsoDateAgain ==
    /\ iso # Pending /\ iso_again = Pending
    /\ iso_again' = to_iso_date(iso)
    /\ UNCHANGED <<given, raw, amount, text, doc, out, iso, laterVars>>

Score ==
    /\ scored = Pending
    /\ scored' = score(text)
    /\ UNCHANGED <<given, raw, amount, text, doc, out, dateVars, item_list, storeVars, serviceVars>>

ExtractLineItems ==
    /\ item_list = Pending
    /\ item_list' = List(extract_line_items(LinesOf(given)))
    /\ UNCHANGED <<given, raw, amount, text, doc, out, dateVars, scored, storeVars, serviceVars>>

ApplyRulesWithName ==
    /\ categorized = Pending
    /\ categorized' = apply_rules_with_name(given.document, given.cfg)
    /\ UNCHANGED <<given, raw, amount, text, doc, out, dateVars, scored, item_list, storeVars, ledger>>

\* a call on the database: what it was given, the database it found and
\* what it returned
Called(op, args, found, result) ==
    /\ db' = result.db
    /\ last' = [op |-> op, args |-> args, found |-> found, ret |-> result.ret]
    /\ UNCHANGED <<given, raw, amount, text, doc, out, dateVars, scored, item_list, serviceVars>>

\* ingest_cmd of src/finproc.py
IngestCmd(raw_text, force) ==
    LET Ingest(ensured) ==
            Called("ingest_cmd", [raw_text |-> raw_text, force |-> force], ensured,
                   _ingest_one(ensured, raw_text, force))
    IN  Ingest(_ensure_db(db))

\* ingest_cmd of src/cli/finproc.py
CliIngestCmd(raw_text, force) ==
    LET Ingest(ensured) ==
            Called("cli_ingest_cmd", [raw_text |-> raw_text, force |-> force], ensured,
                   cli_ingest_one(ensured, raw_text, force))
    IN  Ingest(cli_ensure_db(db))

EnsureCurrentSchema ==
    Called("ensure_current_schema", <<>>, db, ensure_current_schema(db))

MigrateToV4 ==
    Called("migrate_to_v4", <<>>, db, Returned(migrate_to_v4(db), "stats"))

DbCmd(do_init, do_check, do_views, integrity) ==
    Called("db_cmd",
           [do_init |-> do_init, do_check |-> do_check, do_views |-> do_views,
            integrity |-> integrity],
           db, db_cmd(db, do_init, do_check, do_views, integrity))

CategorizeCmd(cfg, refresh, dry_run) ==
    LET Ran(result) ==
            /\ ledger' = result.ledger
            /\ last' = [op |-> "categorize_cmd",
                        args |-> [rules |-> Len(cfg.rules), refresh |-> refresh,
                                  dry_run |-> dry_run],
                        found |-> ledger, ret |-> result.ret]
            /\ UNCHANGED <<given, raw, amount, text, doc, out, dateVars, scored, item_list,
                           db, categorized>>
    IN  Ran(categorize_cmd(ledger, cfg, refresh, dry_run))

NoCall == [op |-> "none"]
NoStore == db = NoDatabase /\ last = NoCall
NoLedger == [documents |-> <<>>, transactions |-> <<>>]
NoService == categorized = Pending /\ ledger = NoLedger

AmountArg(g) ==
    CASE g.kind = "token" -> Str(TokenText(g))
      [] g.kind = "raw" -> Str(g.s)
      [] g.kind = "ocr" -> Str(OcrText(g))
      [] g.kind \in {"ymd", "named", "mdy"} -> Str(DateText(g))
      [] OTHER -> None

TextOf(g) ==
    CASE g.kind = "invoice" -> InvoiceText(g)
      [] g.kind = "saved" -> SavedText(g)
      [] g.kind = "paystub" -> PaystubText(g)
      [] g.kind = "cues" -> CueText(g)
      [] g.kind \in {"totals", "context"} -> JoinLines(LinesOf(g))
      [] OTHER -> JoinLines(g.lines)

InitOn(inputs) ==
    /\ given \in inputs
    /\ text = TextOf(given)
    /\ raw = None /\ amount = Pending /\ doc = Pending /\ out = Pending
    /\ iso = Pending /\ iso_again = Pending /\ scored = Pending /\ item_list = Pending
    /\ NoStore /\ NoService

\* calls of normalize_amount: on amount tokens, on arbitrary strings, on None
InitAmount ==
    /\ given \in {g \in TokenInputs : TokenCanonical(g)} \cup RawInputs
                 \cup OcrInputs \cup {[kind |-> "none"]}
    /\ raw = AmountArg(given)
    /\ amount = Pending /\ text = <<>> /\ doc = Pending /\ out = Pending
    /\ iso = Pending /\ iso_again = Pending /\ scored = Pending /\ item_list = Pending
    /\ NoStore /\ NoService

NextAmount == NormalizeAmount

SpecAmount == InitAmount /\ [][NextAmount]_vars

\* calls of to_iso_date: on date strings, on arbitrary strings, on None
InitDate ==
    /\ given \in YearFirstInputs \cup NamedInputs \cup NumbersInputs \cup RawInputs
                 \cup {[kind |-> "none"]}
    /\ raw = AmountArg(given)
    /\ amount = Pending /\ text = <<>> /\ doc = Pending /\ out = Pending
    /\ iso = Pending /\ iso_again = Pending /\ scored = Pending /\ item_list = Pending
    /\ NoStore /\ NoService

NextDate == ToIsoDate \/ ToIsoDateAgain

SpecDate == InitDate /\ [][NextDate]_vars

\* calls of extract_line_items on receipts of up to MaxItemLines lines
InitItems ==
    /\ given \in RowInputs
    /\ raw = None /\ amount = Pending /\ text = <<>> /\ doc = Pending /\ out = Pending
    /\ iso = Pending /\ iso_again = Pending /\ scored = Pending /\ item_list = Pending
    /\ NoStore /\ NoService

NextItems == ExtractLineItems

SpecItems == InitItems /\ [][NextItems]_vars

\* calls of extract_line_items on receipts of rows of every shape
InitShapes ==
    /\ given \in ShapeInputs
    /\ raw = None /\ amount = Pending /\ text = <<>> /\ doc = Pending /\ out = Pending
    /\ iso = Pending /\ iso_again = Pending /\ scored = Pending /\ item_list = Pending
    /\ NoStore /\ NoService

NextShapes == ExtractLineItems

SpecShapes == InitShapes /\ [][NextShapes]_vars

\* calls of apply_rules_with_name
InitRules ==
    /\ given \in RuleInputs
    /\ raw = None /\ amount = Pending /\ text = <<>> /\ doc = Pending /\ out = Pending
    /\ iso = Pending /\ iso_again = Pending /\ scored = Pending /\ item_list = Pending
    /\ NoStore /\ NoService

NextRules == ApplyRulesWithName

SpecRules == InitRules /\ [][NextRules]_vars

\* categorize runs on one database
InitCategorize ==
    /\ given = [kind |-> "none"]
    /\ raw = None /\ amount = Pending /\ text = <<>> /\ doc = Pending /\ out = Pending
    /\ iso = Pending /\ iso_again = Pending /\ scored = Pending /\ item_list = Pending
    /\ NoStore /\ categorized = Pending
    /\ ledger \in Ledgers

NextCategorize ==
    \E cfg \in CategorizeConfigs, refresh \in BOOLEAN, dry_run \in BOOLEAN :
        CategorizeCmd(cfg, refresh, dry_run)

SpecCategorize == InitCategorize /\ [][NextCategorize]_vars

\* ingests into one database file, new at first, by either program
InitIngest ==
    /\ given = [kind |-> "none"]
    /\ raw = None /\ amount = Pending /\ text = <<>> /\ doc = Pending /\ out = Pending
    /\ iso = Pending /\ iso_again = Pending /\ scored = Pending /\ item_list = Pending
    /\ NoStore /\ NoService

NextIngest ==
    \E raw_text \in FilePool, force \in BOOLEAN :
        IngestCmd(raw_text, force) \/ CliIngestCmd(raw_text, force)

SpecIngest == InitIngest /\ [][NextIngest]_vars

\* ... never with force
NextIngestPlain ==
    \E raw_text \in FilePool : IngestCmd(raw_text, FALSE) \/ CliIngestCmd(raw_text, FALSE)

SpecIngestPlain == InitIngest /\ [][NextIngestPlain]_vars

\* schema management on the databases to migrate
InitSchema ==
    /\ given = [kind |-> "none"]
    /\ raw = None /\ amount = Pending /\ text = <<>> /\ doc = Pending /\ out = Pending
    /\ iso = Pending /\ iso_again = Pending /\ scored = Pending /\ item_list = Pending
    /\ db \in StartingDatabases /\ last = NoCall /\ NoService

NextSchema == EnsureCurrentSchema \/ MigrateToV4

SpecSchema == InitSchema /\ [][NextSchema]_vars

\* db commands on a database left by an earlier version or an earlier call
NextCheck ==
    \E do_init \in BOOLEAN, do_check \in BOOLEAN, do_views \in BOOLEAN,
       integrity \in IntegrityAnswers :
        DbCmd(do_init, do_check, do_views, integrity)

SpecCheck == InitSchema /\ [][NextCheck]_vars

Next == Extract \/ ExtractFromText

\* calls of the extractor on general texts
Init == InitOn(GeneralInputs)

Spec == Init /\ [][Next]_vars

\* ... on invoice texts
InitInvoice == InitOn(InvoiceInputs)

SpecInvoice == InitInvoice /\ [][Next]_vars

\* ... on texts with a "You saved" line
InitSaved == InitOn(SavedInputs)

SpecSaved == InitSaved /\ [][Next]_vars

\* calls on receipts with lines about the total
InitTotals == InitOn(TotalInputs)

SpecTotals == InitTotals /\ [][Next]_vars

\* calls on receipts with a savings line
InitContext == InitOn(ContextInputs)

SpecContext == InitContext /\ [][Next]_vars

\* ... on paystub texts
InitPaystub == InitOn(PaystubInputs)

SpecPaystub == InitPaystub /\ [][Next]_vars

\* calls of the scorer on texts of cue words
InitScore == InitOn(CueInputs)

NextScore == Score

SpecScore == InitScore /\ [][NextScore]_vars

-----------------------------------------------------------------------------
(* The claims *)

\* C1: extract(text) and extract_from_text(text) never raise: every call
\* returns a record.
C1_NeverRaises ==
    /\ doc # Pending => doc.ty = "ParsedDoc"
    /\ out # Pending => ~IsExc(out)

\* extract_from_text("Total 13,6") has raised AttributeError
C1_Raises ==
    /\ text = <<"T","o","t","a","l"," ","1","3",",","6">>
    /\ out = Exc("AttributeError")

\* C2: for every unsigned dot-decimal money token, with or without a currency
\* marker and with or without grouped thousands, normalize_amount returns
\* exactly the number the token writes.
C2_ValueIsTokenNumber ==
    (given.kind = "token" /\ given.sign = "none" /\ amount # Pending)
        => amount.value = TokenValue(given)

\* normalize_amount("50.00") has returned the value 0.0
C2_Diverges ==
    /\ raw = Str(<<"5","0",".","0","0">>)
    /\ amount # Pending
    /\ amount.value = Float(0, 0)

\* C3: for a text with Subtotal: S, Tax: T and Total: X lines where X = S + T,
\* the total of extract_from_text has the value X.
C3_TotalIsSum ==
    (given.kind = "invoice" /\ given.reads = "sum" /\ out # Pending)
        => (~IsExc(out) /\ out.total.value = Norm(InvoiceSum(given), 2))

\* 1000.00 + 234.56 = 1234.56, and the total returned is 234.56
C3_Diverges ==
    /\ text = <<"S","u","b","t","o","t","a","l",":"," ","1","0","0","0",".","0","0",NL,"T","a","x",":"," ","2","3","4",".","5","6",NL,"T","o","t","a","l",":"," ","1","2","3","4",".","5","6">>
    /\ out # Pending
    /\ out.total.value = Float(23456, 2)

\* C4: when the labelled total is off subtotal + tax by more than 0.50 and the
\* sum stands verbatim on another line, the resolved total is the sum.
C4_SumOverridesLabel ==
    (/\ given.kind = "invoice" /\ given.reads # "sum" /\ given.elsewhere # "none"
     /\ out # Pending)
        => (~IsExc(out) /\ out.total.value = Norm(InvoiceSum(given), 2))

\* 90.00 + 10.00 = 100.00 stands on the first line, the labelled total reads
\* 170.00, and the total returned is 170.00
C4_Diverges ==
    /\ text = <<"1","0","0",".","0","0",NL,"S","u","b","t","o","t","a","l",":"," ","9","0",".","0","0",NL,"T","a","x",":"," ","1","0",".","0","0",NL,"T","o","t","a","l",":"," ","1","7","0",".","0","0">>
    /\ out # Pending
    /\ out.total.value = Float(170, 0)

\* C5: when the only money-shaped token of a text is on a "You saved" line,
\* the extracted total is null, whatever bare labels stand on the lines around.
C5_SavedNeverTotal ==
    given.kind = "saved"
        => /\ out # Pending => (~IsExc(out) /\ out.total.value = None)
           /\ doc # Pending => doc.totals.total = None

\* a call of extract_from_text on a text with a bare total label right above
\* the "You saved" line has returned a null total
C5_Witness ==
    /\ given.kind = "saved"
    /\ given.before # <<>>
    /\ given.before[Len(given.before)] = <<"T","o","t","a","l">>
    /\ out # Pending
    /\ ~IsExc(out)
    /\ out.total.value = None

\* C6: for a text with a Pay Period line and a line Net Pay: <amount>, the
\* kind is paystub and net_pay has the value of the amount.
C6_NetPayIsAmount ==
    (given.kind = "paystub" /\ out # Pending)
        => /\ ~IsExc(out)
           /\ out.kind = PAYSTUB
           /\ out.net_pay # None
           /\ out.net_pay.value = PayValue(given)

\* Net Pay: 51.00 has given net_pay the value 1.0
C6_Diverges ==
    /\ text = <<"P","a","y"," ","P","e","r","i","o","d",":"," ","0","1","/","0","1","/","2","0","2","4"," ","t","o"," ","0","1","/","1","5","/","2","0","2","4",NL,"N","e","t"," ","P","a","y",":"," ","5","1",".","0","0">>
    /\ out # Pending
    /\ out.net_pay # None
    /\ out.net_pay.value = Float(1, 0)

\* C7: the kind of the extraction output is invoice or paystub, and it is the
\* classification the document-type scorer gives the text.
C7_KindIsScorerKind ==
    (out # Pending /\ ~IsExc(out))
        => /\ out.kind \in {INVOICE, PAYSTUB}
           /\ out.kind = score(text).kind

\* "hello" has no kind, and the scorer calls it an invoice
C7_Diverges ==
    /\ text = <<"h","e","l","l","o">>
    /\ out # Pending
    /\ out.kind = None
    /\ score(text).kind = INVOICE

\* no total-like field of the document resolved
NoTotalResolved(d) ==
    /\ d.totals.total = None
    /\ d.totals.subtotal = None

\* C8: the sanity block carries low_confidence, true exactly when no
\* total-like field resolved and the text has no money-shaped substring.
C8_LowConfidence ==
    doc # Pending
        => /\ "low_confidence" \in DOMAIN doc.sanity
           /\ doc.sanity.low_confidence
                  <=> (NoTotalResolved(doc) /\ ~ReSearch(_MONEY_RX, text).ok)

\* the sanity block of a document holds the three items_subtotal keys only
C8_Diverges ==
    /\ doc # Pending
    /\ DOMAIN doc.sanity
           = {"items_subtotal_sum", "items_subtotal_diff", "items_subtotal_pct"}

\* C9: for every money token with a leading minus or wrapped in parentheses,
\* the currency marker before or after the sign, normalize_amount returns the
\* negative of the number the token writes.
C9_SignForcesNegative ==
    (given.kind = "token" /\ given.sign # "none" /\ amount # Pending)
        => amount.value = FloatNeg(TokenValue(given))

\* normalize_amount("-$1001.56") has returned the value -1.56
C9_Diverges ==
    /\ raw = Str(<<"-","$","1","0","0","1",".","5","6">>)
    /\ amount # Pending
    /\ amount.value = Float(-156, 2)

\* C10: normalize_amount returns an Amount for every string and never raises;
\* when it parses no number, value is null and raw is the input unchanged.
C10_RawIsInput ==
    (raw # None /\ amount # Pending)
        => /\ amount.ty = "Amount"
           /\ amount.value = None => amount.raw = raw.s

\* normalize_amount("S 1x") has parsed no number and returned the raw "$ 1x"
C10_Diverges ==
    /\ raw = Str(<<"S"," ","1","x">>)
    /\ amount # Pending
    /\ amount.value = None
    /\ amount.raw = <<"$"," ","1","x">>

\* C11: a token whose amount follows a misread S or 5, with or without one
\* blank between them, is normalised to the currency USD and to the value of
\* the amount after the prefix.
C11_PrefixReadsAsDollar ==
    (given.kind = "ocr" /\ amount # Pending)
        => /\ amount.currency = USD
           /\ amount.value = TokenValue(given)

\* normalize_amount("S 51.00") has returned the value 1.0
C11_Diverges ==
    /\ raw = Str(<<"S"," ","5","1",".","0","0">>)
    /\ amount # Pending
    /\ amount.currency = USD
    /\ amount.value = Float(1, 0)

\* a day of the calendar
ValidDate(y, mo, d) ==
    /\ y \in 1..9999 /\ mo \in 1..12 /\ d >= 1
    /\ d <= IF mo = 2 /\ ((y % 4 = 0 /\ y % 100 # 0) \/ y % 400 = 0) THEN 29
            ELSE <<31, 28, 31, 30, 31, 30, 31, 31, 30, 31, 30, 31>>[mo]

\* a string YYYY-MM-DD that names a day of the calendar
IsIsoDate(v) ==
    /\ v.ty = "str" /\ Len(v.s) = 10
    /\ \A k \in 1..10 : IF k \in {5, 8} THEN v.s[k] = "-" ELSE v.s[k] \in Digit
    /\ ValidDate(ParseNat(SubSeq(v.s, 1, 4)), ParseNat(SubSeq(v.s, 6, 7)),
                 ParseNat(SubSeq(v.s, 9, 10)))

\* C12: to_iso_date returns None or a valid calendar date written YYYY-MM-DD,
\* and applied to a date it returned it returns that date again.
C12_IsoOrNullIdempotent ==
    /\ iso # Pending => (iso = None \/ IsIsoDate(iso))
    /\ (iso_again # Pending /\ iso # None) => iso_again = iso

\* to_iso_date("12/31/2021") returned 2021-12-31, and 2021-12-31 again on that
C12_Witness ==
    /\ raw = Str(<<"1","2","/","3","1","/","2","0","2","1">>)
    /\ iso = Str(<<"2","0","2","1","-","1","2","-","3","1">>)
    /\ iso_again = iso

\* C13: for a month name, full or abbreviated and in any letter case, then a
\* day, an optional comma and a four-digit year that make a valid calendar
\* date, to_iso_date returns that date as YYYY-MM-DD.
C13_MonthNameDate ==
    (/\ given.kind = "named" /\ Len(given.year) = 4
     /\ ValidDate(ParseNat(given.year), given.month, ParseNat(given.day))
     /\ iso # Pending)
        => iso = Str(given.year \o <<"-">> \o Pad(given.month, 2) \o <<"-">>
                     \o Pad(ParseNat(given.day), 2))

\* to_iso_date("January 5, 2021") has returned None
C13_Diverges ==
    /\ raw = Str(<<"J","a","n","u","a","r","y"," ","5",","," ","2","0","2","1">>)
    /\ iso = None

\* the weights of the keywords of a table that are among the given ones, each
\* keyword counted once
RECURSIVE WeightOf(_, _, _)
WeightOf(tokens, present, n) ==
    IF n = 0 THEN 0
    ELSE WeightOf(tokens, present, n - 1)
         + (IF tokens[n].k \in present THEN tokens[n].w ELSE 0)

\* C14: the scorer's kind is invoice exactly when the weights of the invoice
\* keywords present in the text sum to at least the weights of the paystub
\* keywords present, and paystub otherwise; equal sums give invoice.
C14_KindByWeights ==
    (given.kind = "cues" /\ scored # Pending)
        => LET present == {given.lines[i] : i \in DOMAIN given.lines}
               inv == WeightOf(INVOICE_TOKENS, present, Len(INVOICE_TOKENS))
               pay == WeightOf(PAYSTUB_TOKENS, present, Len(PAYSTUB_TOKENS))
           IN  scored.kind = IF inv >= pay THEN Str(<<"i","n","v","o","i","c","e">>)
                                           ELSE Str(<<"p","a","y","s","t","u","b">>)

\* score("INVOICE\nNET PAY") returned invoice 3, paystub 3 and the kind invoice
C14_Witness ==
    /\ text = <<"I","N","V","O","I","C","E",NL,"N","E","T"," ","P","A","Y">>
    /\ scored # Pending
    /\ scored.invoice = 3 /\ scored.paystub = 3
    /\ scored.kind = Str(<<"i","n","v","o","i","c","e">>)

-----------------------------------------------------------------------------
(* parser/lineitems.py: sections and quantity lines *)

\* the place in the lines given of the k-th line that is a row
RowLine(ls, k) ==
    CHOOSE i \in DOMAIN ls :
        /\ ls[i].class = "row"
        /\ Cardinality({h \in 1..i : ls[h].class = "row"}) = k
RowCount(ls) == Cardinality({i \in DOMAIN ls : ls[i].class = "row"})
\* the section of the last header line above line i, or None
HeaderAbove(ls, i) ==
    LET above == {h \in 1..(i - 1) : ls[h].class = "header"}
    IN  IF above = {} THEN None
        ELSE Str(ls[CHOOSE h \in above : \A g \in above : g <= h].name)
SectionOf(item) == IF "section" \in DOMAIN item THEN item.section ELSE None
IsRowItem(item) == \E l \in RowPool : l.class = "row" /\ l.name = item.desc
\* the quantity lines between the k-th row and the next row
QtyBelow(ls, k) ==
    {i \in DOMAIN ls :
        /\ ls[i].class = "qty"
        /\ i > RowLine(ls, k)
        /\ k < RowCount(ls) => i < RowLine(ls, k + 1)}

\* C15: the items of the rows, in the order of the rows, carry as section the
\* section of the last header line above the row (in capitals), and no section
\* when no header line is above the row.
C15_SectionOfLastHeader ==
    (given.kind = "rows" /\ item_list # Pending) =>
        LET FromRows(ls, found) ==
                /\ Len(found) = RowCount(ls)
                /\ \A k \in DOMAIN found :
                      /\ found[k].desc = ls[RowLine(ls, k)].name
                      /\ SectionOf(found[k]) = HeaderAbove(ls, RowLine(ls, k))
        IN  FromRows(given.lines, SelectSeq(item_list.xs, IsRowItem))

\* a row before any header and a row after two headers
C15_Witness ==
    /\ given.kind = "rows" /\ item_list # Pending
    /\ LinesOf(given) = << <<"M","i","l","k"," ","3",".","4","9">>, <<"P","R","O","D","U","C","E">>, <<"B","a","n","a","n","a","s"," ","2",".","0","0"," ","l","b"," ","@"," ","0",".","5","0","/","l","b"," ","1",".","0","0">> >>
    /\ Len(item_list.xs) = 2
    /\ "section" \notin DOMAIN item_list.xs[1]
    /\ item_list.xs[2].section = Str(<<"P","R","O","D","U","C","E">>)

C15_WitnessSecondHeader ==
    /\ given.kind = "rows" /\ item_list # Pending
    /\ LinesOf(given) = << <<"P","R","O","D","U","C","E">>, <<"d","e","l","i",":">>, <<"M","i","l","k"," ","3",".","4","9">> >>
    /\ Len(item_list.xs) = 1
    /\ item_list.xs[1].section = Str(<<"D","E","L","I">>)

\* C16: a quantity line adds no item: there are as many items as rows, and
\* the quantity of an item is that of the last quantity line between its row
\* and the next row, or the row's own when there is none.
C16_QuantityLineAddsNoItem ==
    (given.kind = "rows" /\ item_list # Pending) =>
        LET Last(ls, k, below) ==
                IF below = {} THEN ls[RowLine(ls, k)].qty
                ELSE ls[CHOOSE i \in below : \A h \in below : h <= i].qty
            FromRows(ls, found) ==
                /\ Len(found) = RowCount(ls)
                /\ \A k \in DOMAIN found : found[k].qty = Last(ls, k, QtyBelow(ls, k))
        IN  FromRows(given.lines, item_list.xs)

\* the quantity line "Qty: 2.50" with no item before it is read as a row
C16_Diverges ==
    /\ given.kind = "rows" /\ item_list # Pending
    /\ LinesOf(given) = << <<"Q","t","y",":"," ","2",".","5","0">> >>
    /\ Len(item_list.xs) = 1
    /\ item_list.xs[1].desc = <<"Q","t","y",":">>
    /\ item_list.xs[1].line_total.value = Float(25, 1)

\* a quantity line below a row sets the quantity of the row's item
C16_Attached ==
    /\ given.kind = "rows" /\ item_list # Pending
    /\ LinesOf(given) = << <<"M","i","l","k"," ","3",".","4","9">>, <<"Q","t","y",":"," ","2",".","5","0">> >>
    /\ Len(item_list.xs) = 1
    /\ item_list.xs[1].qty = Float(25, 1)

-----------------------------------------------------------------------------
(* src/finproc.py, src/cli/finproc.py: ingest *)

IsIngest == last.op \in {"ingest_cmd", "cli_ingest_cmd"}
Fingerprint(raw_text) == normalized_text_fingerprint(normalize_text(raw_text))
RowsWith(rows, h) == Cardinality({i \in DOMAIN rows : rows[i].norm_hash = h})
StoredRows(database, h) == RowsWith(database.receipts, h) + RowsWith(database.documents, h)
\* the last call was an ingest, with this force, of a file whose fingerprint
\* _ingest_one found stored
IngestedStored(force) ==
    /\ IsIngest
    /\ last.args.force = force
    /\ StoredRows(last.found, Fingerprint(last.args.raw_text)) > 0
SkippedUnchanged == IngestedStored(FALSE) => last.ret = "skip" /\ db = last.found
Filed == {Fingerprint(f) : f \in FilePool}

\* C17 (as amended): an ingest without force of a file whose fingerprint is
\* stored returns skip and leaves the database as _ingest_one found it; after
\* any sequence of ingests without force each of the tables receipts and
\* documents holds at most one row per fingerprint, and a fingerprint with a
\* row in both has the same raw_text in both (the copy the migration made).
C17_SkipKeepsRows ==
    /\ SkippedUnchanged
    /\ \A h \in Filed :
        /\ RowsWith(db.receipts, h) <= 1
        /\ RowsWith(db.documents, h) <= 1
        /\ \A i \in DOMAIN db.receipts, j \in DOMAIN db.documents :
              db.receipts[i].norm_hash = h /\ db.documents[j].norm_hash = h
                  => db.receipts[i].raw_text = db.documents[j].raw_text

\* C17 (as stated): ... at most one stored row exists per fingerprint.
C17_AtMostOneRow ==
    /\ SkippedUnchanged
    /\ \A h \in Filed : StoredRows(db, h) <= 1

\* a file skipped by ingest_cmd of src/finproc.py: MILK  3 after Milk 3
C17_Witness ==
    /\ IngestedStored(FALSE) /\ last.op = "ingest_cmd" /\ last.ret = "skip"
    /\ last.args.raw_text = <<"M","I","L","K"," "," ","3">>
    /\ db.documents = <<RowOf(<<"M","i","l","k"," ","3">>)>>

\* ... by ingest_cmd of src/cli/finproc.py
C17_WitnessCli ==
    /\ IngestedStored(FALSE) /\ last.op = "cli_ingest_cmd" /\ last.ret = "skip"
    /\ db.receipts # <<>>

\* a receipt ingested by src/cli/finproc.py, then copied into documents when
\* src/finproc.py ingests another file
C17_Diverges ==
    /\ last.op = "ingest_cmd" /\ ~last.args.force /\ last.ret = "ok"
    /\ \E h \in Filed : RowsWith(db.receipts, h) = 1 /\ RowsWith(db.documents, h) = 1

\* C18: an ingest with force of a file whose fingerprint is stored returns
\* force, and afterwards exactly one row has that fingerprint, by either
\* program.
C18_ForceReplaces ==
    IngestedStored(TRUE) =>
        /\ last.ret = "force"
        /\ StoredRows(db, Fingerprint(last.args.raw_text)) = 1

\* src/cli/finproc.py: the insert fails on the stored row, which stays
C18_Diverges ==
    /\ IngestedStored(TRUE) /\ last.op = "cli_ingest_cmd"
    /\ last.ret = "error" /\ db = last.found
    /\ last.args.raw_text = <<"M","I","L","K"," "," ","3">>
    /\ db.receipts = <<RowOf(<<"M","i","l","k"," ","3">>)>>

\* src/cli/finproc.py, the fingerprint stored in documents only: a second row
C18_SecondRow ==
    /\ IngestedStored(TRUE) /\ last.op = "cli_ingest_cmd" /\ last.ret = "force"
    /\ StoredRows(db, Fingerprint(last.args.raw_text)) = 2

\* src/finproc.py replaces: the one row left is the file ingested
C18_TopLevelReplaces ==
    IngestedStored(TRUE) /\ last.op = "ingest_cmd" =>
        /\ C18_ForceReplaces
        /\ \E j \in DOMAIN db.documents : db.documents[j] = RowOf(last.args.raw_text)

C18_TopLevelReplaced ==
    /\ IngestedStored(TRUE) /\ last.op = "ingest_cmd" /\ last.ret = "force"
    /\ last.args.raw_text = <<"m","i","l","k",NL,"3">>
    /\ last.found.documents = <<RowOf(<<"M","i","l","k"," ","3">>)>>

-----------------------------------------------------------------------------
(* storage/migrations.py: schema management *)

CoreTables == {"documents", "line_items", "transactions", "merchants", "categories"}
CoreViews == {"documents_v", "line_items_v", "transactions_v"}

\* C19: after ensure_current_schema returns, the schema version is
\* SCHEMA_VERSION, the five tables and the three views exist, and the next
\* call returns current (and changes nothing).
C19_SchemaCurrent ==
    last.op = "ensure_current_schema" =>
        /\ get_schema_version(db) = SCHEMA_VERSION
        /\ CoreTables \subseteq db.tables
        /\ CoreViews \subseteq db.views
        /\ ensure_current_schema(db) = Returned(db, "current")

\* a legacy database of two receipts, migrated
C19_Witness ==
    /\ last.op = "ensure_current_schema" /\ last.ret = "migrated"
    /\ last.found.tables = {"receipts"} /\ Len(last.found.receipts) = 2
    /\ get_schema_version(db) = SCHEMA_VERSION

\* a fresh database, initialized
C19_WitnessFresh ==
    /\ last.op = "ensure_current_schema" /\ last.ret = "initialized"
    /\ last.found = NoDatabase

\* a schema cut short after the documents table, with no receipts
C19_WitnessPartial ==
    /\ last.op = "ensure_current_schema" /\ last.ret = "initialized"
    /\ last.found.tables = {"schema_version", "documents"}
    /\ CoreTables \subseteq db.tables

\* a versioned database that lost a view
C19_WitnessRefreshed ==
    /\ last.op = "ensure_current_schema" /\ last.ret = "views_refreshed"
    /\ last.found.views = ALL_VIEWS \ {"line_items_v"}

\* a versioned database
C19_WitnessCurrent ==
    /\ last.op = "ensure_current_schema" /\ last.ret = "current"
    /\ last.found = db /\ db.receipts # <<>>

\* the last call migrated a database with a receipts table and a schema
\* that was not the current one
MigratedLegacy ==
    /\ last.op \in {"migrate_to_v4", "ensure_current_schema"}
    /\ table_exists(last.found, "receipts")
    /\ get_schema_version(last.found) # SCHEMA_VERSION
EveryReceiptOnce ==
    \A i \in DOMAIN db.receipts :
        db.receipts[i].norm_hash # None
            => RowsWith(db.documents, db.receipts[i].norm_hash) = 1
DocumentsKept ==
    /\ Len(db.documents) >= Len(last.found.documents)
    /\ \A j \in DOMAIN last.found.documents : db.documents[j] = last.found.documents[j]

\* C20: after migrate_to_v4 or ensure_current_schema on a database with a
\* legacy receipts table (that table only, or a partial schema), the hash of
\* every receipt is the hash of exactly one document, and the documents there
\* before are unaltered.
C20_ReceiptsMigrated == MigratedLegacy => EveryReceiptOnce /\ DocumentsKept

\* a schema cut short after the documents table: the receipt stays unmigrated
C20_Diverges ==
    /\ last.op = "migrate_to_v4"
    /\ last.found.tables = {"receipts", "schema_version", "documents"}
    /\ last.found.receipts = <<RowOf(<<"M","i","l","k"," ","3">>)>>
    /\ last.found.documents = <<>>
    /\ db.receipts = last.found.receipts /\ db.documents = <<>>
    /\ get_schema_version(db) = SCHEMA_VERSION

\* ... the same by ensure_current_schema
C20_DivergesEnsure ==
    /\ last.op = "ensure_current_schema" /\ last.ret = "migrated"
    /\ table_exists(last.found, "documents")
    /\ db.receipts = <<RowOf(<<"M","i","l","k"," ","3">>)>> /\ db.documents = <<>>

\* with no documents table before, every receipt is copied
C20_LegacyOnlyMigrated ==
    MigratedLegacy /\ ~table_exists(last.found, "documents")
        => EveryReceiptOnce /\ db.documents = db.receipts

C20_Migrated ==
    /\ MigratedLegacy /\ last.found.tables = {"receipts"}
    /\ Len(db.receipts) = 2 /\ db.documents = db.receipts
    /\ \E i \in DOMAIN db.receipts : db.receipts[i].norm_hash = None

-----------------------------------------------------------------------------
(* parser/lineitems.py: the chain of row shapes *)

\* the lines given that have a row shape, in their order
ShapedLines(ls) == SelectSeq(ls, LAMBDA l : l.shapes # "none")

\* C23: a line that has the weighted shape becomes the item _match_weighted
\* reads from it, also when it has the quantity, unit amount and total shape:
\* the weighted shape is tried first.
C23_WeightedFirst ==
    (given.kind = "shapes" /\ item_list # Pending) =>
        LET Agree(ls, found) ==
                /\ Len(found) = Len(ls)
                /\ \A k \in DOMAIN ls :
                      ls[k].shapes \in {"weighted", "both"}
                          => found[k] = _match_weighted(ls[k].text)
        IN  Agree(ShapedLines(given.lines), item_list.xs)

\* "2 Figs 1 lb @ 2.00/lb 2.00 4.00" has both shapes and is read as quantity 2
\* of "Figs 1 lb @ 2.00/lb", not as 1 lb of "2 Figs"
C23_Diverges ==
    /\ given.kind = "shapes" /\ item_list # Pending
    /\ Len(given.lines) = 1
    /\ given.lines[1].text = <<"2"," ","F","i","g","s"," ","1"," ","l","b"," ","@"," ","2",".","0","0","/","l","b"," ","2",".","0","0"," ","4",".","0","0">>
    /\ _match_weighted(given.lines[1].text) # None
    /\ _match_weighted(given.lines[1].text).desc = <<"2"," ","F","i","g","s">>
    /\ Len(item_list.xs) = 1
    /\ item_list.xs[1] = _match_qty_unit_total(given.lines[1].text)
    /\ item_list.xs[1].desc = <<"F","i","g","s"," ","1"," ","l","b"," ","@"," ","2",".","0","0","/","l","b">>
    /\ item_list.xs[1].qty = Float(2, 0)

\* the chain as the code has it: quantity-unit-total, multiplicative,
\* weighted, simple
C23_QtyUnitTotalFirst ==
    (given.kind = "shapes" /\ item_list # Pending) =>
        LET Agree(ls, found) ==
                /\ Len(found) = Len(ls)
                /\ \A k \in DOMAIN ls :
                      /\ ls[k].shapes \in {"qty_unit_total", "both"}
                            => found[k] = _match_qty_unit_total(ls[k].text)
                      /\ ls[k].shapes = "weighted" => found[k] = _match_weighted(ls[k].text)
                      /\ ls[k].shapes = "xform" => found[k] = _match_xform(ls[k].text)
                      /\ ls[k].shapes = "simple" => found[k] = _match_simple(ls[k].text)
        IN  Agree(ShapedLines(given.lines), item_list.xs)

\* a weighted row alone is read as weighted
C23_WeightedRead ==
    /\ given.kind = "shapes" /\ item_list # Pending
    /\ Len(given.lines) = 1 /\ given.lines[1].shapes = "weighted"
    /\ item_list.xs[1].desc = <<"B","a","n","a","n","a","s">>
    /\ item_list.xs[1].qty = Float(2, 0)

-----------------------------------------------------------------------------
(* parser/extractor.py: the total of extract_from_text *)

Classes(ls) == {ls[i].class : i \in DOMAIN ls}
LinesOfClass(ls, classes) == {i \in DOMAIN ls : ls[i].class \in classes}
\* the greatest of a set of amounts, None when there is none
Greatest(amounts) ==
    IF amounts = {} THEN None
    ELSE CHOOSE v \in amounts : \A w \in amounts : ~FloatLess(v, w)
Answered == out # Pending /\ ~IsExc(out)

\* C24: when the only line with a total label ends in bare digits and the
\* other lines have no label, the total is the digits with the last two as
\* cents, whatever amounts the other lines state.
C24_ImpliedCents ==
    (given.kind = "totals" /\ Answered) =>
        LET Implied(ls, at) ==
                (Cardinality(at) = 1 /\ Classes(ls) \subseteq {"implied", "money", "other"})
                    => \A i \in at : out.total.value = ls[i].value
        IN  Implied(given.lines, LinesOfClass(given.lines, {"implied"}))

\* Total 1794 above Milk 99.99: the total is 99.99
C24_Diverges ==
    /\ given.kind = "totals" /\ Answered
    /\ text = <<"T","o","t","a","l"," ","1","7","9","4",NL,"M","i","l","k"," ","9","9",".","9","9">>
    /\ out.total.value = Float(9999, 2)

\* Total 1794 above hello: the total is 17.94
C24_Alone ==
    /\ given.kind = "totals" /\ Answered
    /\ text = <<"T","o","t","a","l"," ","1","7","9","4",NL,"h","e","l","l","o">>
    /\ out.total.value = Float(1794, 2)

\* C25: of several lines with a labelled total, the total is the amount of
\* the last one.
C25_BottomMost ==
    (given.kind = "totals" /\ Answered) =>
        LET Last(ls, at) ==
                (Cardinality(at) >= 2 /\ Classes(ls) \subseteq {"labelled", "other"})
                    => out.total.value = ls[CHOOSE i \in at : \A j \in at : j <= i].value
        IN  Last(given.lines, LinesOfClass(given.lines, {"labelled"}))

\* Total: 15.00 above Total: 12.00: the total is 15.00
C25_Diverges ==
    /\ given.kind = "totals" /\ Answered
    /\ text = <<"T","o","t","a","l",":"," ","1","5",".","0","0",NL,"T","o","t","a","l",":"," ","1","2",".","0","0">>
    /\ out.total.value = Float(15, 0)

\* the greatest of several labelled totals, wherever it stands
C25_Greatest ==
    (given.kind = "totals" /\ Answered) =>
        LET Most(ls, at) ==
                (Cardinality(at) >= 2 /\ Classes(ls) \subseteq {"labelled", "other"})
                    => out.total.value = Greatest({ls[i].value : i \in at})
        IN  Most(given.lines, LinesOfClass(given.lines, {"labelled"}))

\* C26: a Total items line is no total label: when no other line has a
\* label, no amount is taken for standing after the Total items line, and the
\* total is the one the scan of all lines finds, the greatest amount.
C26_ItemsNoLabel ==
    (given.kind = "totals" /\ Answered) =>
        LET Scanned(ls) ==
                ("items" \in Classes(ls) /\ Classes(ls) \cap {"implied", "labelled"} = {})
                    => out.total.value =
                          Greatest({ls[i].value : i \in LinesOfClass(ls, {"money", "numeric"})})
        IN  Scanned(given.lines)

\* Milk 99.99, Total items 5, 7.00: the total is the 7.00 after Total items
C26_Diverges ==
    /\ given.kind = "totals" /\ Answered
    /\ text = <<"M","i","l","k"," ","9","9",".","9","9",NL,"T","o","t","a","l"," ","i","t","e","m","s"," ","5",NL,"7",".","0","0">>
    /\ out.total.value = Float(7, 0)

\* C27: when extract finds a total, extract_from_text returns that total.
C27_SameTotal ==
    (given.kind = "totals" /\ Answered) =>
        LET Same(total) == total # None => out.total.value = total
        IN  Same(extract(text).totals.total)

\* Total 1794: extract finds 1794.0, extract_from_text returns 17.94
C27_Diverges ==
    /\ given.kind = "totals" /\ Answered
    /\ text = <<"T","o","t","a","l"," ","1","7","9","4">>
    /\ extract(text).totals.total = Float(1794, 0)
    /\ out.total.value = Float(1794, 2)

\* Total: 12.00 alone: both return 12.0
C27_Agree ==
    /\ given.kind = "totals" /\ Answered
    /\ text = <<"T","o","t","a","l",":"," ","1","2",".","0","0">>
    /\ extract(text).totals.total = Float(12, 0)
    /\ out.total.value = Float(12, 0)

\* C28: in the scan of all lines a line that is an amount alone is left out
\* only when one of the two lines above it is a savings line; the total is
\* the greatest amount of the other lines that are no savings line.
C28_TwoLinesAfter ==
    (given.kind = "context" /\ Answered) =>
        LET Savings(ls, i) == i \in DOMAIN ls /\ ls[i].class = "context"
            Candidate(ls, i) ==
                \/ ls[i].class = "money"
                \/ ls[i].class = "numeric" /\ ~Savings(ls, i - 1) /\ ~Savings(ls, i - 2)
            Scanned(ls) ==
                out.total.value = Greatest({ls[i].value : i \in {j \in DOMAIN ls : Candidate(ls, j)}})
        IN  Scanned(given.lines)

\* You saved 2.00, hello, hello, 7.00: the 7.00 is left out
C28_Diverges ==
    /\ given.kind = "context" /\ Answered
    /\ text = <<"Y","o","u"," ","s","a","v","e","d"," ","2",".","0","0",NL,"h","e","l","l","o",NL,"h","e","l","l","o",NL,"7",".","0","0">>
    /\ out.total.value = None

\* You saved 2.00, 7.00, Milk 3.49: the 7.00 is left out, the total is 3.49
C28_LeftOut ==
    /\ given.kind = "context" /\ Answered
    /\ text = <<"Y","o","u"," ","s","a","v","e","d"," ","2",".","0","0",NL,"7",".","0","0",NL,"M","i","l","k"," ","3",".","4","9">>
    /\ out.total.value = Float(349, 2)

\* the scan as the code has it: after a savings line the next two lines that
\* are an amount alone are left out, however far below they stand
RECURSIVE KeptFrom(_, _, _)
KeptFrom(ls, i, prev_ctx) ==
    IF i > Len(ls) THEN {}
    ELSE IF prev_ctx > 0 /\ ls[i].class = "numeric" THEN KeptFrom(ls, i + 1, prev_ctx - 1)
    ELSE IF ls[i].class = "context" THEN KeptFrom(ls, i + 1, 2)
    ELSE (IF ls[i].value # None THEN {ls[i].value} ELSE {}) \cup KeptFrom(ls, i + 1, prev_ctx)
C28_NextTwoAmounts ==
    (given.kind = "context" /\ Answered) =>
        out.total.value = Greatest(KeptFrom(given.lines, 1, 0))

-----------------------------------------------------------------------------
(* categorizer/rules.py: priority and amount conditions *)

\* the places of the config's rules that apply to the document
Applicable(cfg, document) ==
    {k \in DOMAIN cfg.rules : applies(parse_rule(cfg.rules[k]), document)}
PriorityAt(cfg, k) == parse_rule(cfg.rules[k]).priority
ResultOf(cfg, k) ==
    [name |-> cfg.rules[k].name, primary_category |-> cfg.rules[k].assign.primary_category]

\* C21: the name and the category returned are those of the applicable rule
\* of the highest priority, of the first listed among several of that
\* priority; when no rule applies, no name and the default category.
C21_HighestPriorityFirstListed ==
    (given.kind = "rules" /\ categorized # Pending) =>
        LET Wins(cfg, among, k) ==
                \A j \in among :
                    \/ PriorityAt(cfg, j) < PriorityAt(cfg, k)
                    \/ PriorityAt(cfg, j) = PriorityAt(cfg, k) /\ k <= j
            Chosen(cfg, among) ==
                IF among = {}
                THEN /\ categorized.name = None
                     /\ categorized.cat.primary_category = Str(<<"U","n","c","a","t","e","g","o","r","i","z","e","d">>)
                ELSE \E k \in among :
                        /\ Wins(cfg, among, k)
                        /\ categorized.name = ResultOf(cfg, k).name
                        /\ categorized.cat.primary_category = ResultOf(cfg, k).primary_category
        IN  Chosen(given.cfg, Applicable(given.cfg, given.document))

\* a rule of priority 10 listed before two of priority 50: the second wins
C21_Witness ==
    /\ given.kind = "rules" /\ categorized # Pending
    /\ Len(given.cfg.rules) = 3
    /\ Applicable(given.cfg, given.document) = {1, 2, 3}
    /\ PriorityAt(given.cfg, 1) = 10
    /\ PriorityAt(given.cfg, 2) = 50 /\ PriorityAt(given.cfg, 3) = 50
    /\ categorized.name = Str(<<"s","e","c","o","n","d">>)
    /\ categorized.cat.primary_category = Str(<<"T","w","o">>)

\* two rules of one priority: the first listed wins
C21_WitnessTie ==
    /\ given.kind = "rules" /\ categorized # Pending
    /\ Len(given.cfg.rules) = 2
    /\ Applicable(given.cfg, given.document) = {1, 2}
    /\ PriorityAt(given.cfg, 1) = PriorityAt(given.cfg, 2)
    /\ categorized.name = Str(<<"f","i","r","s","t">>)

\* no rule applies: the defaults
C21_WitnessDefault ==
    /\ given.kind = "rules" /\ categorized # Pending
    /\ given.cfg.rules # <<>>
    /\ Applicable(given.cfg, given.document) = {}
    /\ categorized.name = None

\* C22: a rule with if_amount_gt: N is chosen only for a total greater than
\* N, a rule with if_amount_lt: N only for a total less than N.
C22_StrictBounds ==
    (given.kind = "rules" /\ categorized # Pending) =>
        LET Strict(r, total) ==
                /\ r.if_amount_gt # None => FloatLess(r.if_amount_gt, total)
                /\ r.if_amount_lt # None => FloatLess(total, r.if_amount_lt)
        IN  \A k \in DOMAIN given.cfg.rules :
                categorized.name = given.cfg.rules[k].name
                    => Strict(given.cfg.rules[k], given.document.total)

\* if_amount_gt: 100 and a total of 100: the rule is chosen
C22_Diverges ==
    /\ given.kind = "rules" /\ categorized # Pending
    /\ Len(given.cfg.rules) = 1
    /\ given.cfg.rules[1].if_amount_gt = Threshold
    /\ given.document.total = Threshold
    /\ categorized.name = given.cfg.rules[1].name

\* if_amount_lt: 100 and a total of 100: the rule is chosen
C22_DivergesLess ==
    /\ given.kind = "rules" /\ categorized # Pending
    /\ Len(given.cfg.rules) = 1
    /\ given.cfg.rules[1].if_amount_lt = Threshold
    /\ given.document.total = Threshold
    /\ categorized.name = given.cfg.rules[1].name

\* the bounds as the code has them: the total is no less than if_amount_gt
\* and no greater than if_amount_lt
C22_InclusiveBounds ==
    (given.kind = "rules" /\ categorized # Pending) =>
        LET Within(r, total) ==
                /\ r.if_amount_gt # None => ~FloatLess(total, r.if_amount_gt)
                /\ r.if_amount_lt # None => ~FloatLess(r.if_amount_lt, total)
        IN  \A k \in DOMAIN given.cfg.rules :
                categorized.name = given.cfg.rules[k].name
                    => Within(given.cfg.rules[k], given.document.total)

\* if_amount_gt: 100 and a total of 50: the defaults
C22_Below ==
    /\ given.kind = "rules" /\ categorized # Pending
    /\ Len(given.cfg.rules) = 1
    /\ given.cfg.rules[1].if_amount_gt = Threshold
    /\ given.document.vendor = Str(<<"C","o","f","f","e","e"," ","S","h","o","p">>)
    /\ given.document.total = Float(50, 0)
    /\ categorized.name = None

-----------------------------------------------------------------------------
(* storage/migrations.py and src/finproc.py: db --check *)

Damaged == last.op = "db_cmd" /\ last.args.do_check /\ last.args.integrity # "ok"

\* C30: when the integrity check does not answer ok, the report of db --check
\* has the status error and the exit code is 3, whatever tables and views
\* are missing.
C30_DamageIsError ==
    Damaged => last.ret.check.status = "error" /\ last.ret.exit_code = 3

\* db --check on a damaged database with the receipts table only:
\* status warning, exit code 2
C30_Diverges ==
    /\ Damaged /\ ~last.args.do_init
    /\ last.found.tables = {"receipts"}
    /\ last.ret.check.status = "warning"
    /\ last.ret.exit_code = 2

\* when no table and no view is missing, and after --init, the damage is
\* reported as error with exit code 3
C30_ErrorWhenComplete ==
    (Damaged /\ (last.args.do_init
                 \/ (last.ret.check.missing_tables = {} /\ last.ret.check.missing_views = {})))
        => last.ret.check.status = "error" /\ last.ret.exit_code = 3

C30_Error ==
    /\ Damaged /\ ~last.args.do_init
    /\ last.ret.check.status = "error" /\ last.ret.exit_code = 3

C30_ErrorAfterInit ==
    /\ Damaged /\ last.args.do_init
    /\ last.found.tables = {"receipts"}
    /\ last.ret.check.status = "error" /\ last.ret.exit_code = 3

-----------------------------------------------------------------------------
(* src/finproc.py: categorize *)

TransactionsOf(led, id) ==
    {k \in DOMAIN led.transactions : led.transactions[k].document_id = id}

\* C29: every document has at most one transaction, and a run with
\* --dry-run leaves the transactions as they were.
C29_AtMostOneTransaction ==
    /\ \A k \in DOMAIN ledger.documents :
          Cardinality(TransactionsOf(ledger, ledger.documents[k].id)) <= 1
    /\ (last.op = "categorize_cmd" /\ last.args.dry_run)
          => ledger.transactions = last.found.transactions

\* a run with --refresh replaced the transaction of document 1 by the one of
\* the rule for COFFEE
C29_Witness ==
    /\ last.op = "categorize_cmd" /\ last.args.refresh /\ ~last.args.dry_run
    /\ \E k \in TransactionsOf(last.found, 1) :
          last.found.transactions[k].primary_category = Str(<<"O","l","d">>)
    /\ Cardinality(TransactionsOf(ledger, 1)) = 1
    /\ \A k \in TransactionsOf(ledger, 1) :
          /\ ledger.transactions[k].primary_category = Str(<<"O","n","e">>)
          /\ ledger.transactions[k].rule_name = Str(<<"f","i","r","s","t">>)

\* a dry run with --refresh on two documents with transactions
C29_WitnessDryRun ==
    /\ last.op = "categorize_cmd" /\ last.args.refresh /\ last.args.dry_run
    /\ Len(last.found.transactions) = 2
    /\ ledger = last.found

\* a run without --refresh gave the second document its transaction and
\* left the one of the first
C29_WitnessUncategorized ==
    /\ last.op = "categorize_cmd" /\ ~last.args.refresh /\ ~last.args.dry_run
    /\ Len(last.found.transactions) = 1 /\ last.found.transactions[1].document_id = 1
    /\ Len(ledger.transactions) = 2
    /\ ledger.transactions[1] = last.found.transactions[1]
    /\ ledger.transactions[2].document_id = 2

\* a document without raw text gets no transaction
C29_WitnessError ==
    /\ last.op = "categorize_cmd" /\ last.args.refresh /\ ~last.args.dry_run
    /\ last.ret.errors = 1 /\ last.ret.categorized = 1
    /\ Len(ledger.transactions) = 1
====
